---------------------------- MODULE Spec2Model ----------------------------
(***************************************************************************)
(* A model of the vacancy text-structure engine of iGet                    *)
(* (src/iget/vacancy_parser): normalizer -> anchor detector -> content     *)
(* segmenter -> semantics extractor -> confidence / validator, driven by   *)
(* parse_vacancy.                                                          *)
(*                                                                         *)
(* Text representation.  A text is a sequence of lines (the code's         *)
(* text.split("\n")); a line is a record                                   *)
(*     [ind, mark, words, colon]                                           *)
(* ind   : number of leading spaces,                                       *)
(* mark  : "none", "dash" (the canonical "- " marker), "glyph" (a glyph of *)
(*         BULLET_MARKERS other than "-", e.g. U+2022), "star" (a glyph of *)
(*         BULLET_MARKERS inside EMOJI_PATTERN's range U+2600..U+27BF,     *)
(*         e.g. U+2605) or "num" (digits and one of . ) :),                *)
(* words : the whitespace-delimited tokens after the marker,               *)
(* colon : the line ends with ':' directly after its last word.            *)
(* Words are atoms of a fixed vocabulary; WordLen gives the length of the  *)
(* source string a word stands for.  Cyrillic words are written in Latin   *)
(* transliteration ("ot" = U+043E U+0442, "do" = U+0434 U+043E,            *)
(* "rub" = U+0440 U+0443 U+0431, "trebovaniya" = the first ru keyword of   *)
(* the REQUIREMENTS rule, "obyazannosti" = the first ru keyword of the     *)
(* RESPONSIBILITIES rule, "razrabotka" = a Cyrillic noun).  The token       *)
(* "FWCOLON" stands for the fullwidth colon U+FF1A written directly after  *)
(* the word before it (its length is carried by the separator counted      *)
(* between two words).  "L190.", "M21." and "E20." stand for tokens of     *)
(* 190, 21 and 20 characters that begin with a capital letter and end with *)
(* a full stop.  A word never contains another vocabulary word             *)
(* as a proper substring unless a table below says so.                     *)
(***************************************************************************)
EXTENDS Integers, Sequences, FiniteSets, TLC

VARIABLES
    raw_text,            \* parse_vacancy's argument
    pc,                  \* position inside parse_vacancy
    stages,              \* the stages run so far, in order
    normalized,          \* normalize_text(raw_text)
    anchors,             \* detect_section_anchors(normalized)
    sections,            \* the section list being built
    semantics,           \* extract_semantics(normalized, sections)
    overall_confidence,  \* _calculate_overall_confidence(...)
    warnings,            \* the warnings list
    needs_llm,           \* the answer of needs_llm_clarification()
    registry,            \* the module-level SECTION_RULES table, shared by all calls
    peer                 \* Some(the locals of a second, suspended call of the
                         \* same process), or None

vars == <<raw_text, pc, stages, normalized, anchors, sections,
          semantics, overall_confidence, warnings, needs_llm, registry, peer>>

-----------------------------------------------------------------------------
(* Bounds of the model. *)

MaxLines == 3          \* lines of a raw document
MaxAnchorLines == 4    \* lines of a document of headers
MaxTokens == 3         \* tokens of a salary phrase
MaxSections == 3       \* sections of a ParsedVacancy built by a caller
MaxIntroItems == 5     \* bullet lines before the first header

-----------------------------------------------------------------------------
(* Generic helpers. *)

RECURSIVE SumSeq(_)
SumSeq(s) == IF s = <<>> THEN 0 ELSE Head(s) + SumSeq(Tail(s))

RECURSIVE ConcatAll(_)
ConcatAll(ss) == IF ss = <<>> THEN <<>> ELSE Head(ss) \o ConcatAll(Tail(ss))

Range(s) == {s[i] : i \in DOMAIN s}

Reverse(s) == [i \in 1..Len(s) |-> s[Len(s) + 1 - i]]

\* an optional value: None, or Some(v)
None == <<>>
Some(v) == <<v>>

Max2(a, b) == IF a >= b THEN a ELSE b

IsPrefix(p, s) == Len(p) <= Len(s) /\ SubSeq(s, 1, Len(p)) = p

\* p occurs in s as a contiguous run of words
Occurs(p, s) == \E i \in 1..(Len(s) - Len(p) + 1) : SubSeq(s, i, i + Len(p) - 1) = p

\* all sequences over S of length 0..n
SeqsUpTo(S, n) == UNION {[1..k -> S] : k \in 0..n}

-----------------------------------------------------------------------------
(* Vocabulary. *)

NumWords == {"150000", "200000", "200", "100", "5", "0"}

\* digits immediately followed by the letter k
NumKWords == {"100k", "200k"}

WordLen(w) ==
    CASE w = "requirements" -> 12 [] w = "skills" -> 6 [] w = "looking" -> 7
      [] w = "for" -> 3 [] w = "responsibilities" -> 16 [] w = "benefits" -> 8
      [] w = "compensation" -> 12 [] w = "package" -> 7 [] w = "company" -> 7
      [] w = "team" -> 4 [] w = "overview" -> 8 [] w = "salary" -> 6
      [] w = "pay" -> 3 [] w = "rate" -> 4 [] w = "experience" -> 10
      [] w = "contact" -> 7 [] w = "hr" -> 2 [] w = "trebovaniya" -> 10
      [] w = "stack" -> 5 [] w = "bonus" -> 5 [] w = "remote" -> 6
      [] w = "sql" -> 3 [] w = "python" -> 6 [] w = "budget" -> 6
      [] w = "we" -> 2 [] w = "build" -> 5 [] w = "games" -> 5
      [] w = "150000" -> 6 [] w = "200000" -> 6 [] w = "200" -> 3
      [] w = "100" -> 3 [] w = "5" -> 1 [] w = "0" -> 1
      [] w = "100k" -> 4 [] w = "200k" -> 4 [] w = "years" -> 5
      [] w = "-" -> 1 [] w = "ot" -> 2 [] w = "do" -> 2 [] w = "from" -> 4
      [] w = "up" -> 2 [] w = "to" -> 2 [] w = "rub" -> 3 [] w = "usd" -> 3
      [] w = "$" -> 1
      [] w = "@hr_bot" -> 7 [] w = "@HR_BOT" -> 7 [] w = "t.me/hr_bot" -> 11
      [] w = "jobs@corp.io" -> 12
      [] w = "EMOJI" -> 1 [] w = "===" -> 3 [] w = "vacancy:" -> 8
      [] w = "obyazannosti" -> 11 [] w = "razrabotka" -> 10 [] w = "dev" -> 3
      [] w = "FWCOLON" -> 0
      [] w = "---" -> 3 [] w = "--" -> 2 [] w = "***" -> 3 [] w = "**" -> 2
      [] w = "###" -> 3
      [] w = "L190." -> 190 [] w = "M21." -> 21 [] w = "E20." -> 20
      [] w = "remotely" -> 8 [] w = "office" -> 6 [] w = "onsite" -> 6
      [] w = "hybrid" -> 6

\* a code point of EMOJI_PATTERN's ranges
IsEmoji(w) == w = "EMOJI"

-----------------------------------------------------------------------------
(* Lines. *)

Line(i, m, ws, c) == [ind |-> i, mark |-> m, words |-> ws, colon |-> c]

EmptyLine == Line(0, "none", <<>>, FALSE)

\* the line made of the given tokens joined by single spaces; a leading "-"
\* token followed by more tokens is the canonical bullet marker
MkLine(toks) ==
    IF Len(toks) >= 2 /\ Head(toks) = "-"
    THEN Line(0, "dash", Tail(toks), FALSE)
    ELSE Line(0, "none", toks, FALSE)

MarkLen(m) ==
    CASE m = "none" -> 0 [] m = "dash" -> 2 [] m = "glyph" -> 2 [] m = "star" -> 2
      [] m = "num" -> 3

WordsLen(ws) ==
    IF ws = <<>> THEN 0
    ELSE SumSeq([i \in 1..Len(ws) |-> WordLen(ws[i])]) + (Len(ws) - 1)

\* len(line.strip())
StrippedLen(l) == MarkLen(l.mark) + WordsLen(l.words) + (IF l.colon THEN 1 ELSE 0)

\* len(line)
LineLen(l) == l.ind + StrippedLen(l)

\* len(text) of the lines joined by "\n"
TextLen(t) ==
    IF t = <<>> THEN 0
    ELSE SumSeq([i \in 1..Len(t) |-> LineLen(t[i])]) + (Len(t) - 1)

\* not line.strip()
is_empty_line(l) == l.words = <<>> /\ l.mark = "none" /\ ~l.colon

\* line.lstrip().startswith("- ")
is_bullet_line(l) == l.mark = "dash"

get_indentation(l) == l.ind

\* text.split("\n"): the empty text has one (empty) line
get_lines(t) == IF t = <<>> THEN <<EmptyLine>> ELSE t

-----------------------------------------------------------------------------
(* Normalizer.  Steps 1-3 (NFC, line endings, zero-width characters) are   *)
(* the identity on this representation: the vocabulary holds no combining  *)
(* or zero-width character and a text is already a sequence of lines.      *)

NumLeadingEmoji(ws) ==
    IF \A i \in DOMAIN ws : IsEmoji(ws[i]) THEN Len(ws)
    ELSE (CHOOSE k \in 0..Len(ws) :
            /\ \A i \in 1..k : IsEmoji(ws[i])
            /\ ~IsEmoji(ws[k + 1]))

\* EMOJI_PATTERN.sub("", text) on one line: the emoji go, the spaces that
\* separated them from their neighbours stay
remove_emoji_line(l) ==
    LET rest == SelectSeq(l.words, LAMBDA w : ~IsEmoji(w))
        lead == NumLeadingEmoji(l.words)
    IN  IF l.mark = "star"
        THEN Line(l.ind + 1, "none", rest, l.colon)   \* the glyph goes, its space stays
        ELSE IF lead = 0 \/ l.mark # "none" THEN [l EXCEPT !.words = rest]
        ELSE IF rest = <<>> THEN [l EXCEPT !.words = rest, !.ind = l.ind + lead - 1]
        ELSE [l EXCEPT !.words = rest, !.ind = l.ind + lead]

_remove_emoji(t) == [i \in 1..Len(t) |-> remove_emoji_line(t[i])]

\* a first word that begins with one of the BULLET_MARKERS "-" and "*"
\* without a space after it, and what follows that marker
StartsWithMarker(w) == w \in {"---", "***"}

AfterMarker(w) == IF w = "---" THEN "--" ELSE "**"

\* a glyph of BULLET_MARKERS or a numbered prefix at the start of the
\* stripped line becomes "- ", the indentation kept; startswith(marker)
\* asks for no space after the marker
unify_bullet_line(l) ==
    IF l.mark \in {"glyph", "num", "dash"} THEN [l EXCEPT !.mark = "dash"]
    ELSE IF l.mark = "none" /\ l.words # <<>> /\ StartsWithMarker(l.words[1])
         THEN [l EXCEPT !.mark = "dash", !.words = <<AfterMarker(l.words[1])>> \o Tail(l.words)]
         ELSE l

_unify_bullets(t) == [i \in 1..Len(t) |-> unify_bullet_line(t[i])]

\* the words made of 3 repeated characters of = - _ (first pattern) or of
\* * # (second pattern)
DecorativeWords == {"===", "---", "***", "###"}

\* DECORATIVE_PATTERNS: a run of 3+ of = - _ or of * # alone on the line,
\* or a line of whitespace only (at least one character)
IsDecorative(l) ==
    \/ l.ind = 0 /\ l.mark = "none" /\ Len(l.words) = 1 /\ l.words[1] \in DecorativeWords
          /\ ~l.colon
    \/ l.ind > 0 /\ is_empty_line(l)

_remove_decorative_lines(t) == SelectSeq(t, LAMBDA l : ~IsDecorative(l))

\* first loop of _normalize_whitespace: content stripped, "" when nothing is
\* left; a marker with no text after it strips to the bare "-"
normalize_ws_line(l) ==
    IF is_empty_line(l) THEN EmptyLine
    ELSE IF l.mark = "dash" /\ l.words = <<>> /\ ~l.colon
         THEN Line(l.ind, "none", <<"-">>, FALSE)
         ELSE l

\* second loop of _normalize_whitespace: at most 2 consecutive empty lines
RECURSIVE CollapseEmpty(_, _)
CollapseEmpty(t, empty_count) ==
    IF t = <<>> THEN <<>>
    ELSE IF is_empty_line(Head(t))
         THEN (IF empty_count + 1 <= 2
               THEN <<EmptyLine>> \o CollapseEmpty(Tail(t), empty_count + 1)
               ELSE CollapseEmpty(Tail(t), empty_count + 1))
         ELSE <<Head(t)>> \o CollapseEmpty(Tail(t), 0)

_normalize_whitespace(t) ==
    CollapseEmpty([i \in 1..Len(t) |-> normalize_ws_line(t[i])], 0)

\* NOISE_PREFIXES on the first line ("vacancy:"; the emoji prefixes were
\* removed by step 4)
_strip_noise_prefixes(t) ==
    IF t # <<>> /\ t[1].ind = 0 /\ t[1].mark = "none"
       /\ t[1].words # <<>> /\ t[1].words[1] = "vacancy:"
    THEN [t EXCEPT ![1] = [@ EXCEPT !.words = Tail(@)]]
    ELSE t

\* str.strip() of the whole text: outer empty lines and the first line's
\* indentation go
RECURSIVE DropLeadingEmpty(_)
DropLeadingEmpty(t) ==
    IF t # <<>> /\ is_empty_line(Head(t)) THEN DropLeadingEmpty(Tail(t)) ELSE t

StripText(t) ==
    LET a == DropLeadingEmpty(t)
        b == Reverse(DropLeadingEmpty(Reverse(a)))
    IN  IF b = <<>> THEN <<>> ELSE [b EXCEPT ![1] = [@ EXCEPT !.ind = 0]]

normalize_text(t) ==
    IF t = <<>> THEN <<>>
    ELSE StripText(_strip_noise_prefixes(_normalize_whitespace(
            _remove_decorative_lines(_unify_bullets(_remove_emoji(t))))))

\* faulty variant of the guard: `not raw_text` alone, without the strip()
IsEmptyString(t) == t = <<>>

\* faulty variant of the guard: a text that normalization empties counts
\* as blank
IsBlankAfterNormalization(t) == normalize_text(t) = <<>>

\* not raw_text or not raw_text.strip()
IsBlankText(t) == \A i \in DOMAIN t : is_empty_line(t[i])

-----------------------------------------------------------------------------
(* Rule registry (rules.py), restricted to the keywords made of vocabulary *)
(* words.  A frozenset of keywords is listed as a sequence; the order in   *)
(* which a process iterates it depends on that process's string hashing    *)
(* (HashOrders).                                                           *)

HashOrders == {"fwd", "rev"}

IterSet(kws, order) == IF order = "fwd" THEN kws ELSE Reverse(kws)

HIGH_CONFIDENCE_THRESHOLD == 60
MEDIUM_CONFIDENCE_THRESHOLD == 35

\* position_score_multiplier is kept in tenths
SectionRule(st, ru, en, alt, primary, mult10) ==
    [section_type |-> st, keywords_ru |-> ru, keywords_en |-> en,
     keywords_alt |-> alt, keyword_primary_score |-> primary,
     keyword_alt_score |-> 30, colon_bonus |-> 15,
     standalone_line_bonus |-> 10, position_score_multiplier |-> mult10]

SECTION_RULES ==
    << SectionRule("requirements", << <<"trebovaniya">> >>,
                   << <<"requirements">>, <<"skills">> >>,
                   << <<"looking", "for">> >>, 60, 10),
       SectionRule("responsibilities", << <<"obyazannosti">> >>,
                   << <<"responsibilities">> >>, <<>>, 60, 10),
       SectionRule("nice_to_have", <<>>, << <<"bonus">> >>, <<>>, 55, 10),
       SectionRule("tech_stack", <<>>, << <<"stack">> >>, <<>>, 50, 10),
       SectionRule("benefits", <<>>, << <<"benefits">>, <<"compensation">> >>,
                   << <<"package">> >>, 55, 10),
       SectionRule("about_company", <<>>, << <<"company">> >>, << <<"team">> >>, 45, 12),
       SectionRule("about_job", <<>>, <<>>, << <<"overview">> >>, 45, 10),
       SectionRule("team", <<>>, << <<"team">> >>, <<>>, 40, 10),
       SectionRule("salary", <<>>,
                   << <<"salary">>, <<"compensation">>, <<"pay">>, <<"rate">> >>,
                   << <<"package">> >>, 50, 10),
       SectionRule("experience", <<>>, << <<"experience">> >>, <<>>, 45, 10),
       SectionRule("work_format", <<>>, << <<"remote">>, <<"office">>, <<"hybrid">> >>, <<>>,
                   45, 10),
       SectionRule("contact", <<>>, << <<"contact">> >>, << <<"hr">> >>, 50, 8) >>

SectionTypes == {SECTION_RULES[i].section_type : i \in DOMAIN SECTION_RULES} \cup {"intro"}

Confidences == {"high", "medium", "low"}

-----------------------------------------------------------------------------
(* Anchor detector (anchors.py). *)

\* str.lower() of a word
Lower(w) == IF w = "@HR_BOT" THEN "@hr_bot" ELSE w

LowerWords(ws) == [i \in 1..Len(ws) |-> Lower(ws[i])]

_keyword_matches(line, keyword) ==
    \/ line = keyword
    \/ IsPrefix(keyword, line)                    \* startswith + boundary
    \/ Len(keyword) > 1 /\ Occurs(keyword, line)  \* " " in keyword
    \/ Len(keyword) = 1 /\ keyword[1] \in Range(line)

\* the first keyword of the iteration that matches, or <<>>
RECURSIVE FirstMatch(_, _)
FirstMatch(line_clean, kws) ==
    IF kws = <<>> THEN <<>>
    ELSE IF _keyword_matches(line_clean, Head(kws)) THEN Head(kws)
         ELSE FirstMatch(line_clean, Tail(kws))

PrimaryScore(rule, keyword, line_clean) ==
    IF WordsLen(keyword) > 3 /\ Occurs(keyword, line_clean)
    THEN rule.keyword_primary_score + 10
    ELSE rule.keyword_primary_score

\* the first set with a match decides: ru, then en, then the alternatives
PickKeyword(ru, en, alt, rule, line_clean) ==
    IF ru # <<>> THEN [score |-> PrimaryScore(rule, ru, line_clean), keyword |-> ru]
    ELSE IF en # <<>> THEN [score |-> PrimaryScore(rule, en, line_clean), keyword |-> en]
    ELSE IF alt # <<>> THEN [score |-> rule.keyword_alt_score, keyword |-> alt]
    ELSE [score |-> 0, keyword |-> <<>>]

\* (score, matched_keyword); score 0 when no keyword matches
_score_line_against_rule(line_clean, rule, order) ==
    PickKeyword(FirstMatch(line_clean, IterSet(rule.keywords_ru, order)),
                FirstMatch(line_clean, IterSet(rule.keywords_en, order)),
                FirstMatch(line_clean, IterSet(rule.keywords_alt, order)),
                rule, line_clean)

\* int(score * m) for m = tenths / 10 (exact for the doubles 1.2 and 2 - 0.8
\* on every score below 400)
ScaleInt(score, tenths) == (score * tenths) \div 10

\* stripped.endswith(":"): the colon after the last word, or a last word
\* that is written with one
EndsWithColon(l) == l.colon \/ (l.words # <<>> /\ l.words[Len(l.words)] = "vacancy:")

\* the line ends with the fullwidth colon U+FF1A
EndsWithFullwidthColon(l) ==
    ~l.colon /\ l.words # <<>> /\ l.words[Len(l.words)] = "FWCOLON"

\* HEADER_SUFFIX_PATTERN.sub("", line_lower).strip(): a closing ':' or
\* U+FF1A is cut off
LineClean(l) ==
    IF EndsWithFullwidthColon(l) THEN LowerWords(SubSeq(l.words, 1, Len(l.words) - 1))
    ELSE LowerWords(l.words)

\* line_lower.endswith(":") or line_lower.endswith(U+00EF U+00BC U+0161):
\* the second literal of the source is three characters, none of them
\* U+FF1A, and no line of the vocabulary ends with them
HasColon(l) == EndsWithColon(l)

ColonBonus(score, hc, rule) ==
    IF hc THEN score + rule.colon_bonus ELSE score

StandaloneBonus(score, prev_empty, next_empty, rule) ==
    IF prev_empty /\ next_empty THEN score + rule.standalone_line_bonus
    ELSE IF prev_empty \/ next_empty THEN score + (rule.standalone_line_bonus \div 2)
    ELSE score

\* faulty variant of PositionBonus: a multiplier below 1 scales the score by
\* itself in the last 30%
PositionBonusSuppressing(score, line_num, tot, m) ==
    IF m > 10 /\ 10 * line_num < 3 * tot THEN (score * m) \div 10
    ELSE IF m < 10 /\ 10 * line_num > 7 * tot THEN (score * m) \div 10
    ELSE score

\* position_ratio = line_num / max(total_lines, 1), compared with 0.3 and 0.7
PositionBonus(score, line_num, tot, m) ==
    IF m > 10 /\ 10 * line_num < 3 * tot THEN ScaleInt(score, m)
    ELSE IF m < 10 /\ 10 * line_num > 7 * tot THEN ScaleInt(score, 20 - m)
    ELSE score

ShortLineBonus(score, line_clean) ==
    IF WordsLen(line_clean) < 40 THEN score + 5 ELSE score

ScoreEntry(base, l, line_num, total_lines, prev_empty, next_empty, rule) ==
    IF base.score > 0
    THEN [section_type |-> rule.section_type,
          score |-> ShortLineBonus(
                        PositionBonus(
                            StandaloneBonus(ColonBonus(base.score, HasColon(l), rule),
                                            prev_empty, next_empty, rule),
                            line_num, Max2(total_lines, 1), rule.position_score_multiplier),
                        LineClean(l)),
          keyword |-> base.keyword]
    ELSE [section_type |-> rule.section_type, score |-> 0, keyword |-> <<>>]

\* the entry of `scores` for one rule ([score |-> 0] when the rule adds none)
RuleScore(l, line_num, total_lines, prev_empty, next_empty, rule, order) ==
    ScoreEntry(_score_line_against_rule(LineClean(l), rule, order),
               l, line_num, total_lines, prev_empty, next_empty, rule)

\* the dict of scores as the sequence of its entries in insertion order
_calculate_line_scores(l, line_num, total_lines, prev_empty, next_empty, order) ==
    SelectSeq([r \in 1..Len(registry) |->
                  RuleScore(l, line_num, total_lines, prev_empty, next_empty,
                            registry[r], order)],
              LAMBDA e : e.score > 0)

\* faulty variant of _find_best_match: the best entry whatever its score
FindBestMatchNoThreshold(scores) ==
    IF scores = <<>> THEN None
    ELSE Some(scores[CHOOSE i \in DOMAIN scores :
                        /\ \A j \in DOMAIN scores : scores[j].score <= scores[i].score
                        /\ \A j \in 1..(i - 1) : scores[j].score < scores[i].score])

\* max(scores.keys(), key=score): the first entry with the highest score;
\* None when there is no entry or the best is below the medium threshold
_find_best_match(scores) ==
    IF scores = <<>> THEN None
    ELSE LET best == CHOOSE i \in DOMAIN scores :
                        /\ \A j \in DOMAIN scores : scores[j].score <= scores[i].score
                        /\ \A j \in 1..(i - 1) : scores[j].score < scores[i].score
         IN  IF scores[best].score < MEDIUM_CONFIDENCE_THRESHOLD THEN None
             ELSE Some(scores[best])

_score_to_confidence(score) ==
    IF score >= HIGH_CONFIDENCE_THRESHOLD THEN "high"
    ELSE IF score >= MEDIUM_CONFIDENCE_THRESHOLD THEN "medium"
    ELSE "low"

\* lines are indexed from 0 in the code, from 1 in a TLA+ sequence
_is_prev_empty(lines, line_num) ==
    IF line_num = 0 THEN TRUE ELSE is_empty_line(lines[line_num])

_is_next_empty(lines, line_num) ==
    IF line_num >= Len(lines) - 1 THEN TRUE ELSE is_empty_line(lines[line_num + 2])

\* the anchors appended by the loop of detect_section_anchors over lines
\* line_num .. len(lines) - 1
RECURSIVE ScanAnchors(_, _, _)
ScanAnchors(lines, line_num, order) ==
    IF line_num >= Len(lines) THEN <<>>
    ELSE LET l == lines[line_num + 1]
             rest == ScanAnchors(lines, line_num + 1, order)
         IN  IF is_empty_line(l) \/ is_bullet_line(l) THEN rest
             ELSE LET found == _find_best_match(
                                 _calculate_line_scores(l, line_num, Len(lines),
                                     _is_prev_empty(lines, line_num),
                                     _is_next_empty(lines, line_num), order))
                      best == found[1]
                  IN  IF found = None THEN rest
                      ELSE << [section_type |-> best.section_type,
                               line_number |-> line_num,
                               score |-> best.score,
                               confidence |-> _score_to_confidence(best.score),
                               matched_keyword |-> best.keyword] >> \o rest

\* faulty variant of the first loop: every anchor is kept, not the best of
\* its type
KeepEveryAnchor(as, acc) == acc \o as

\* first loop of _resolve_conflicts: the values of type_to_best in
\* insertion order
RECURSIVE TypeToBest(_, _)
TypeToBest(as, acc) ==
    IF as = <<>> THEN acc
    ELSE LET a == Head(as)
             hit == {i \in DOMAIN acc : acc[i].section_type = a.section_type}
         IN  IF hit = {} THEN TypeToBest(Tail(as), Append(acc, a))
             ELSE LET i == CHOOSE j \in hit : TRUE
                  IN  IF a.score > acc[i].score
                      THEN TypeToBest(Tail(as), [acc EXCEPT ![i] = a])
                      ELSE TypeToBest(Tail(as), acc)

\* list.sort / sorted by line_number (stable insertion sort)
RECURSIVE InsertByLine(_, _)
InsertByLine(a, s) ==
    IF s = <<>> THEN <<a>>
    ELSE IF a.line_number < Head(s).line_number THEN <<a>> \o s
         ELSE <<Head(s)>> \o InsertByLine(a, Tail(s))

RECURSIVE SortByLine(_)
SortByLine(s) ==
    IF s = <<>> THEN <<>>
    ELSE InsertByLine(s[Len(s)], SortByLine(SubSeq(s, 1, Len(s) - 1)))

Abs(x) == IF x < 0 THEN -x ELSE x

\* faulty variant of the second loop: a window of 1 line instead of 2
RECURSIVE ProximityWithin1(_, _)
ProximityWithin1(resolved, final) ==
    IF resolved = <<>> THEN final
    ELSE LET a == Head(resolved)
             n == Len(final)
         IN  IF n > 0 /\ Abs(a.line_number - final[n].line_number) <= 1
             THEN (IF a.score > final[n].score
                   THEN ProximityWithin1(Tail(resolved), [final EXCEPT ![n] = a])
                   ELSE ProximityWithin1(Tail(resolved), final))
             ELSE ProximityWithin1(Tail(resolved), Append(final, a))

\* second loop of _resolve_conflicts
RECURSIVE Proximity(_, _)
Proximity(resolved, final) ==
    IF resolved = <<>> THEN final
    ELSE LET a == Head(resolved)
             n == Len(final)
         IN  IF n > 0 /\ Abs(a.line_number - final[n].line_number) <= 2
             THEN (IF a.score > final[n].score
                   THEN Proximity(Tail(resolved), [final EXCEPT ![n] = a])
                   ELSE Proximity(Tail(resolved), final))
             ELSE Proximity(Tail(resolved), Append(final, a))

_resolve_conflicts(as) ==
    IF Len(as) <= 1 THEN as
    ELSE Proximity(SortByLine(TypeToBest(as, <<>>)), <<>>)

detect_section_anchors(normalized_text, order) ==
    SortByLine(_resolve_conflicts(ScanAnchors(get_lines(normalized_text), 0, order)))

\* faulty variant of get_section_boundaries: a section ends on the line of
\* the next anchor instead of the line before it
BoundariesToNextAnchor(as, total_lines) ==
    [i \in 1..Len(as) |->
        [anchor |-> as[i],
         start_line |-> as[i].line_number,
         end_line |-> IF i + 1 <= Len(as) THEN as[i + 1].line_number
                      ELSE total_lines - 1]]

get_section_boundaries(as, total_lines) ==
    [i \in 1..Len(as) |->
        [anchor |-> as[i],
         start_line |-> as[i].line_number,
         end_line |-> IF i + 1 <= Len(as) THEN as[i + 1].line_number - 1
                      ELSE total_lines - 1]]

-----------------------------------------------------------------------------
(* Content segmenter (content.py).  A ListItem is [text, is_continuation]; *)
(* text is the sequence of the item's lines (joined by "\n" in the code),  *)
(* each stripped, a bullet line without its marker.                        *)

\* line.strip(), as a line
Stripped(l) == [l EXCEPT !.ind = 0]

\* faulty variant of get_bullet_content: the marker stays in the item
BulletContentWithMarker(l) == Stripped(l)

\* get_bullet_content(line)
get_bullet_content(l) == IF l.mark = "dash" THEN Line(0, "none", l.words, l.colon) ELSE Stripped(l)

_create_item(lines, is_bullet) == [text |-> lines, is_continuation |-> Len(lines) > 1]

_is_continuation(l, line_indent, expected_indent) ==
    IF line_indent < expected_indent - 2 /\ line_indent = 0 /\ expected_indent > 4 THEN FALSE
    ELSE IF StrippedLen(l) < 30 /\ EndsWithColon(l) THEN FALSE
    ELSE IF is_bullet_line(l) THEN FALSE
    ELSE IF StrippedLen(l) < 15 /\ EndsWithColon(l) THEN FALSE
    ELSE TRUE

\* the loop of _parse_lines_to_items from line i on, with the loop's locals
RECURSIVE ItemsLoop(_, _, _, _, _, _)
ItemsLoop(lines, i, items, current_item, current_is_bullet, current_indent) ==
    IF i > Len(lines)
    THEN (IF current_item # <<>>
          THEN Append(items, _create_item(current_item, current_is_bullet))
          ELSE items)
    ELSE
    LET l == lines[i]
        closed == IF current_item # <<>>
                  THEN Append(items, _create_item(current_item, current_is_bullet))
                  ELSE items
    IN  IF is_empty_line(l)
        THEN (IF current_item # <<>>
              THEN ItemsLoop(lines, i + 1, closed, <<>>, FALSE, current_indent)
              ELSE ItemsLoop(lines, i + 1, items, current_item, current_is_bullet,
                             current_indent))
        ELSE IF is_bullet_line(l)
        THEN ItemsLoop(lines, i + 1, closed, <<get_bullet_content(l)>>, TRUE,
                       get_indentation(l) + 2)
        ELSE IF current_is_bullet
                /\ _is_continuation(l, get_indentation(l), current_indent)
        THEN ItemsLoop(lines, i + 1, items, Append(current_item, Stripped(l)),
                       current_is_bullet, current_indent)
        ELSE IF current_item # <<>> /\ current_is_bullet
        THEN ItemsLoop(lines, i + 1, closed, <<Stripped(l)>>, FALSE, get_indentation(l))
        ELSE IF current_item # <<>>
        THEN ItemsLoop(lines, i + 1, items, Append(current_item, Stripped(l)),
                       FALSE, current_indent)
        ELSE ItemsLoop(lines, i + 1, items, <<Stripped(l)>>, FALSE, get_indentation(l))

_parse_lines_to_items(lines) ==
    IF lines = <<>> THEN <<>> ELSE ItemsLoop(lines, 1, <<>>, <<>>, FALSE, 0)

VacancySection(type, content, raw_content, confidence, start_line, end_line) ==
    [type |-> type, content |-> content, raw_content |-> raw_content,
     confidence |-> confidence, start_line |-> start_line, end_line |-> end_line]

\* lines[a : b + 1] of the code (0-based, both ends included)
Slice(lines, a, b) == IF a > b THEN <<>> ELSE SubSeq(lines, a + 1, b + 1)

\* the two while loops that pop empty lines off both ends
TrimEmpty(lines) == Reverse(DropLeadingEmpty(Reverse(DropLeadingEmpty(lines))))

SectionOf(lines, b) ==
    LET section_lines == TrimEmpty(Slice(lines, b.start_line + 1, b.end_line))
    IN  VacancySection(b.anchor.section_type, _parse_lines_to_items(section_lines),
                       section_lines, b.anchor.confidence, b.start_line, b.end_line)

parse_section_content(normalized_text, as) ==
    LET lines == get_lines(normalized_text)
        total_lines == Len(lines)
    IN  IF as = <<>>
        THEN (LET content == _parse_lines_to_items(lines)
              IN  IF content # <<>>
                  THEN << VacancySection("intro", content, lines, "low", 0, total_lines - 1) >>
                  ELSE <<>>)
        ELSE
        LET first_anchor_line == as[1].line_number
            intro_lines == Slice(lines, 0, first_anchor_line - 1)
            intro_content == _parse_lines_to_items(intro_lines)
            intro == IF first_anchor_line > 0 /\ intro_content # <<>>
                     THEN << VacancySection("intro", intro_content, intro_lines, "high",
                                            0, first_anchor_line - 1) >>
                     ELSE <<>>
            boundaries == get_section_boundaries(as, total_lines)
        IN  intro \o [i \in 1..Len(boundaries) |-> SectionOf(lines, boundaries[i])]

\* s in section.raw_content.lower(), for the signals the vocabulary can hold
HasWord(lines, w) == \E i \in DOMAIN lines : w \in Range(LowerWords(lines[i].words))

\* "we " : the word followed by a space
HasWordThenSpace(lines, w) ==
    \E i \in DOMAIN lines : \E k \in 1..(Len(lines[i].words) - 1) : Lower(lines[i].words[k]) = w

BoolToInt(b) == IF b THEN 1 ELSE 0

\* faulty variant of _looks_like_about_company: len(section.content) <= 5
LooksLikeAboutUpToFiveItems(section) ==
    /\ BoolToInt(HasWord(section.raw_content, "company"))
         + BoolToInt(HasWord(section.raw_content, "team"))
         + BoolToInt(HasWordThenSpace(section.raw_content, "we")) >= 2
    /\ \A w \in {"trebovaniya", "obyazannosti", "requirements", "responsibilities", "skills"} :
           ~HasWord(section.raw_content, w)
    /\ Len(section.content) <= 5

_looks_like_about_company(section) ==
    LET text == section.raw_content
        company_score == BoolToInt(HasWord(text, "company")) + BoolToInt(HasWord(text, "team"))
                         + BoolToInt(HasWordThenSpace(text, "we"))
        non_company_score == BoolToInt(HasWord(text, "trebovaniya"))
                             + BoolToInt(HasWord(text, "obyazannosti"))
                             + BoolToInt(HasWord(text, "requirements"))
                             + BoolToInt(HasWord(text, "responsibilities"))
                             + BoolToInt(HasWord(text, "skills"))
    IN  company_score >= 2 /\ non_company_score = 0 /\ Len(section.content) < 5

\* the last INTRO section of secs, relabelled as merge_intro_with_about does
RelabelIntro(secs) ==
    LET intros == {i \in DOMAIN secs : secs[i].type = "intro"}
        i == CHOOSE j \in intros : \A k \in intros : k <= j
    IN  [secs EXCEPT ![i] = [@ EXCEPT !.type = "about_company", !.confidence = "medium"]]

\* faulty variant of merge_intro_with_about: has_about_company is not tested
MergeIntroWithoutAboutTest(secs) ==
    IF (\E i \in DOMAIN secs : secs[i].type = "intro" /\ _looks_like_about_company(secs[i]))
    THEN RelabelIntro(secs)
    ELSE secs

merge_intro_with_about(secs) ==
    LET intros == {i \in DOMAIN secs : secs[i].type = "intro"}
        has_about_company == \E i \in DOMAIN secs : secs[i].type = "about_company"
    IN  IF intros = {} \/ has_about_company THEN secs
        ELSE LET i == CHOOSE j \in intros : \A k \in intros : k <= j
             IN  IF _looks_like_about_company(secs[i])
                 THEN [secs EXCEPT ![i] = [@ EXCEPT !.type = "about_company",
                                                    !.confidence = "medium"]]
                 ELSE secs

\* the word ends with one of . ! ?  / starts with a capital letter
SentenceEndWords == {"L190.", "M21.", "E20."}
CapitalWords == {"L190.", "M21.", "E20."}
EndsSentence(w) == w \in SentenceEndWords
StartsUpper(w) == w \in CapitalWords

\* re.split at every space between a sentence end and a capital
RECURSIVE SplitWords(_, _)
SplitWords(ws, cur) ==
    IF ws = <<>> THEN (IF cur = <<>> THEN <<>> ELSE <<cur>>)
    ELSE IF cur # <<>> /\ EndsSentence(cur[Len(cur)]) /\ StartsUpper(Head(ws))
         THEN <<cur>> \o SplitWords(Tail(ws), <<Head(ws)>>)
         ELSE SplitWords(Tail(ws), Append(cur, Head(ws)))

FragmentLen(l, ws, last) == WordsLen(ws) + (IF last /\ l.colon THEN 1 ELSE 0)

\* the parts longer than 20 characters
_split_sentences(l) ==
    LET parts == SplitWords(l.words, <<>>)
        keep == {i \in DOMAIN parts : FragmentLen(l, parts[i], i = Len(parts)) > 20}
    IN  [p \in 1..Len(SelectSeq([i \in 1..Len(parts) |-> i], LAMBDA i : i \in keep)) |->
            LET i == SelectSeq([j \in 1..Len(parts) |-> j], LAMBDA j : j \in keep)[p]
            IN  Line(0, "none", parts[i], l.colon /\ i = Len(parts))]

ItemLen(item) == TextLen(item.text)

SplitItem(item) ==
    IF ~item.is_continuation /\ ItemLen(item) > 200
    THEN LET sentences == _split_sentences(item.text[1])
         IN  IF Len(sentences) > 1
             THEN [i \in 1..Len(sentences) |->
                      [text |-> <<sentences[i]>>, is_continuation |-> FALSE]]
             ELSE <<item>>
    ELSE <<item>>

split_long_paragraphs(secs) ==
    [i \in 1..Len(secs) |->
        [secs[i] EXCEPT !.content =
            ConcatAll([k \in 1..Len(secs[i].content) |-> SplitItem(secs[i].content[k])])]]

-----------------------------------------------------------------------------
(* Semantics extractor (semantics.py).  The regular expressions are        *)
(* modelled on the token sequence of the text: the words of every line in  *)
(* order, "-" for a bullet marker, ":" for a closing colon; tokens are     *)
(* separated by whitespace, which every pattern below skips with \s*.      *)
(* Input families never put two numeric tokens next to each other.         *)

LineTokens(l) ==
    (IF l.mark = "dash" THEN <<"-">> ELSE <<>>) \o LowerWords(l.words)
    \o (IF l.colon THEN <<":">> ELSE <<>>)

\* text.lower(), as tokens
TextTokens(t) == ConcatAll([i \in 1..Len(t) |-> LineTokens(t[i])])

IsNum(w) == w \in NumWords
IsNumK(w) == w \in NumKWords
IsNumeric(w) == IsNum(w) \/ IsNumK(w)

\* the leading digits of a numeric token
Digits(w) == CASE w = "100k" -> "100" [] w = "200k" -> "200" [] OTHER -> w

\* int() of a string of digits
IntOf(w) ==
    CASE w = "150000" -> 150000 [] w = "200000" -> 200000 [] w = "200" -> 200
      [] w = "100" -> 100 [] w = "5" -> 5 [] w = "0" -> 0

At(toks, i) == IF i \in DOMAIN toks THEN toks[i] ELSE ""

\* the word starts with a letter of [k, Cyrillic ka, Cyrillic te]
\* ("trebovaniya" stands for a word whose first letter is Cyrillic te)
StartsWithKT(w) == w = "trebovaniya"

\* a number group ending in [k..]? : the digits, the k of the token, or a
\* letter taken from the following word
WithSuffix(toks, j) ==
    IF IsNum(toks[j]) /\ StartsWithKT(At(toks, j + 1)) THEN "digits+t" ELSE toks[j]

\* [$ EUR RUB GBP signs]
IsCurrSym(w) == w = "$"

\* int(clean) raising ValueError
IntRaises(value_str) == ~IsNum(value_str)

\* faulty variant of _parse_salary_value: int() outside a try block
ParseSalaryValueUncaught(value_str, multiplier) ==
    IF value_str = "" THEN [raised |-> FALSE, val |-> None]
    ELSE IF IntRaises(value_str) THEN [raised |-> TRUE, val |-> None]
    ELSE [raised |-> FALSE,
          val |-> Some(IF multiplier \in {"k", "t"} THEN IntOf(value_str) * 1000
                       ELSE IntOf(value_str))]

\* _parse_salary_value: [raised, val]; the ValueError of int() is caught
_parse_salary_value(value_str, multiplier) ==
    IF value_str = "" THEN [raised |-> FALSE, val |-> None]
    ELSE IF IntRaises(value_str) THEN [raised |-> FALSE, val |-> None]
    ELSE [raised |-> FALSE,
          val |-> Some(IF multiplier \in {"k", "t"} THEN IntOf(value_str) * 1000
                       ELSE IntOf(value_str))]

\* [-en-dash em-dash U+0434 U+043E] is a character class: it takes exactly
\* one character, so of the vocabulary only the token "-" can stand between
\* the two numbers (the two-letter word "do" cannot)
IsRangeSep(w) == w = "-"

\* the range template with its min group on token i: the match as
\* [first, last, min, max, end] (the positions of the first and last token
\* of the match, the group strings, the matched part of the last token), or
\* None
RangeAt(toks, i) ==
    LET j1 == IF IsCurrSym(At(toks, i + 1)) THEN i + 2 ELSE i + 1
        j2 == IF IsCurrSym(At(toks, j1 + 1)) THEN j1 + 2 ELSE j1 + 1
        first == IF IsCurrSym(At(toks, i - 1)) THEN i - 1 ELSE i
        last == IF IsNum(At(toks, j2)) /\ IsCurrSym(At(toks, j2 + 1)) THEN j2 + 1 ELSE j2
    IN  IF IsNum(At(toks, i)) /\ IsRangeSep(At(toks, j1)) /\ IsNumeric(At(toks, j2))
        THEN Some([first |-> first, last |-> last, min |-> toks[i],
                   max |-> Digits(toks[j2]), mult |-> "",
                   end |-> IF last = j2 THEN Digits(toks[j2]) ELSE toks[last]])
        ELSE None

\* "ot" / "from", an optional sign, the number with an optional k
FromAt(toks, i) ==
    LET j == IF IsCurrSym(At(toks, i + 1)) THEN i + 2 ELSE i + 1
        last == IF IsCurrSym(At(toks, j + 1)) THEN j + 1 ELSE j
    IN  IF At(toks, i) \in {"ot", "from"} /\ IsNumeric(At(toks, j))
        THEN Some([first |-> i, last |-> last, min |-> WithSuffix(toks, j), max |-> "",
                   mult |-> "", end |-> toks[last]])
        ELSE None

\* "do" / "up to", an optional sign, the number with an optional k
UptoAt(toks, i) ==
    LET k == IF At(toks, i) = "up" /\ At(toks, i + 1) = "to" THEN i + 1 ELSE i
        j == IF IsCurrSym(At(toks, k + 1)) THEN k + 2 ELSE k + 1
        last == IF IsCurrSym(At(toks, j + 1)) THEN j + 1 ELSE j
    IN  IF (At(toks, i) = "do" \/ k = i + 1) /\ IsNumeric(At(toks, j))
        THEN Some([first |-> i, last |-> last, min |-> "", max |-> WithSuffix(toks, j),
                   mult |-> "", end |-> toks[last]])
        ELSE None

\* a bare number, an optional k, an optional currency sign or word
SingleAt(toks, i) ==
    LET first == IF IsCurrSym(At(toks, i - 1)) THEN i - 1 ELSE i
        last == IF At(toks, i + 1) \in {"$", "usd", "rub"} THEN i + 1 ELSE i
    IN  IF IsNumeric(At(toks, i))
        THEN Some([first |-> first, last |-> last, min |-> "", max |-> "",
                   val |-> Digits(toks[i]),
                   mult |-> IF IsNumK(toks[i]) THEN "k"
                            ELSE IF StartsWithKT(At(toks, i + 1)) THEN "t" ELSE "",
                   end |-> toks[last]])
        ELSE None

SALARY_PATTERNS == <<"range", "from", "upto", "single">>

PatternAt(pattern_type, toks, i) ==
    CASE pattern_type = "range" -> RangeAt(toks, i)
      [] pattern_type = "from" -> FromAt(toks, i)
      [] pattern_type = "upto" -> UptoAt(toks, i)
      [] pattern_type = "single" -> SingleAt(toks, i)

\* pattern.search(text_lower): the leftmost match, or None
Search(pattern_type, toks) ==
    LET hits == {i \in DOMAIN toks : PatternAt(pattern_type, toks, i) # None}
    IN  IF hits = {} THEN None
        ELSE PatternAt(pattern_type, toks, CHOOSE i \in hits : \A k \in hits : i <= k)

\* CURRENCY_PATTERNS in dict order, first on the match, then on the text
_detect_currency(text, context) ==
    LET InUSD(t) == "$" \in Range(t) \/ "usd" \in Range(t)
        InRUB(t) == "rub" \in Range(t)
    IN  IF InUSD(context) THEN "USD"
        ELSE IF InRUB(context) THEN "RUB"
        ELSE IF InUSD(text) THEN "USD"
        ELSE IF InRUB(text) THEN "RUB"
        ELSE IF "$" \in Range(context) THEN "USD" ELSE "RUB"

_detect_period(text) ==
    IF "/year" \in Range(text) THEN "year"
    ELSE IF "/hour" \in Range(text) THEN "hour"
    ELSE "month"

NoValue == [raised |-> FALSE, val |-> None]

\* Salary(...) when one of min_val, max_val is not None
BuildSalary(mn, mx, toks, context) ==
    IF mn.raised \/ mx.raised THEN [raised |-> TRUE, val |-> None]
    ELSE IF mn.val # None \/ mx.val # None
    THEN [raised |-> FALSE,
          val |-> Some([min |-> mn.val, max |-> mx.val,
                        currency |-> _detect_currency(toks, context),
                        period |-> _detect_period(toks),
                        raw_text |-> context])]
    ELSE NoValue

MinGroup(pattern_type, g) ==
    IF pattern_type \in {"range", "from"} THEN _parse_salary_value(g.min, "")
    ELSE IF pattern_type = "single" THEN _parse_salary_value(g.val, g.mult)
    ELSE NoValue

MaxGroup(pattern_type, g) ==
    IF pattern_type \in {"range", "upto"} THEN _parse_salary_value(g.max, "")
    ELSE IF pattern_type = "single" THEN _parse_salary_value(g.val, g.mult)
    ELSE NoValue

\* the body of the loop of _parse_salary_text for the match m of one
\* pattern: [raised, val] with val the Salary, or None (try the next one)
OnMatch(pattern_type, m, toks) ==
    IF m = None THEN NoValue
    ELSE BuildSalary(MinGroup(pattern_type, m[1]), MaxGroup(pattern_type, m[1]),
                     toks, Append(SubSeq(toks, m[1].first, m[1].last - 1), m[1].end))

TrySalaryPattern(pattern_type, toks) ==
    OnMatch(pattern_type, Search(pattern_type, toks), toks)

Settled(r) == r.raised \/ r.val # None

RECURSIVE SalaryLoop(_, _)
SalaryFirst(r, patterns, toks) == IF Settled(r) THEN r ELSE SalaryLoop(patterns, toks)

SalaryLoop(patterns, toks) ==
    IF patterns = <<>> THEN NoValue
    ELSE SalaryFirst(TrySalaryPattern(Head(patterns), toks), Tail(patterns), toks)

_parse_salary_text(text) == SalaryLoop(SALARY_PATTERNS, TextTokens(text))

\* next((s for s in sections if s.type == type), None)
FirstSection(secs, type) ==
    LET hit == {i \in DOMAIN secs : secs[i].type = type}
    IN  IF hit = {} THEN None ELSE Some(secs[CHOOSE i \in hit : \A k \in hit : i <= k])

\* _parse_salary_text on the raw content of a section, when there is one
SectionSalary(section) ==
    IF section # None THEN _parse_salary_text(section[1].raw_content) ELSE NoValue

FirstSettled(r1, r2, text) ==
    IF Settled(r1) THEN r1 ELSE IF Settled(r2) THEN r2 ELSE _parse_salary_text(text)

_extract_salary(text, secs) ==
    FirstSettled(SectionSalary(FirstSection(secs, "salary")),
                 SectionSalary(FirstSection(secs, "benefits")), text)

\* EXPERIENCE_PATTERNS: the (min, max) years as <<min, max>>, or None.
\* The groups are \d+, so int() of a group cannot raise.
YearsWords == {"years"}

ExperienceAt(n, toks, i) ==
    CASE n = 1 -> IF IsNum(At(toks, i)) /\ IsRangeSep(At(toks, i + 1))
                     /\ IsNum(At(toks, i + 2)) /\ At(toks, i + 3) \in YearsWords
                  THEN Some(<<IntOf(toks[i]), IntOf(toks[i + 2])>>) ELSE None
      [] n = 2 -> IF IsNum(At(toks, i)) /\ At(toks, i + 1) \in YearsWords
                  THEN Some(<<IntOf(toks[i]), IntOf(toks[i])>>) ELSE None
      [] n = 3 -> LET j == IF At(toks, i + 1) = ":" THEN i + 2 ELSE i + 1
                  IN  IF At(toks, i) = "experience" /\ IsNumeric(At(toks, j))
                      THEN Some(<<IntOf(Digits(toks[j])), IntOf(Digits(toks[j]))>>)
                      ELSE None

RECURSIVE ExperienceLoop(_, _)
ExperienceLoop(n, toks) ==
    IF n > 3 THEN None
    ELSE LET hits == {i \in DOMAIN toks : ExperienceAt(n, toks, i) # None}
         IN  IF hits = {} THEN ExperienceLoop(n + 1, toks)
             ELSE ExperienceAt(n, toks, CHOOSE i \in hits : \A k \in hits : i <= k)

_extract_experience(text) == ExperienceLoop(1, TextTokens(text))

\* Remote status.  The indicator phrases of rules.py that the vocabulary can
\* spell, and for a word the phrases that occur in it as substrings.
REMOTE_POSITIVE == {"remote", "remotely"}

REMOTE_NEGATIVE == {"office", "onsite"}

HYBRID_INDICATORS == {"hybrid"}

PhrasesIn(w) ==
    CASE w = "remotely" -> {"remote", "remotely"}
      [] w \in {"remote", "office", "onsite", "hybrid"} -> {w}
      [] OTHER -> {}

\* `indicator in text`
InText(indicator, text) ==
    \E i \in DOMAIN text : \E k \in DOMAIN text[i].words :
        indicator \in PhrasesIn(Lower(text[i].words[k]))

\* sum(1 for r in indicators if r in text)
IndicatorCount(indicators, text) == Cardinality({r \in indicators : InText(r, text)})

\* the two tests after the counts: Optional[bool]
RemoteDecision(remote_count, office_count) ==
    IF remote_count > 0 /\ office_count = 0 THEN Some(TRUE)
    ELSE IF office_count > 0 /\ remote_count = 0 THEN Some(FALSE)
    ELSE None

_extract_remote_status(text) ==
    IF \E indicator \in HYBRID_INDICATORS : InText(indicator, text) THEN None
    ELSE RemoteDecision(IndicatorCount(REMOTE_POSITIVE, text),
                        IndicatorCount(REMOTE_NEGATIVE, text))

\* Contacts.  Every word of the text with the offset of its first character.
WordStart(l, k) ==
    l.ind + MarkLen(l.mark) + SumSeq([j \in 1..(k - 1) |-> WordLen(l.words[j]) + 1])

LineStart(t, i) == SumSeq([j \in 1..(i - 1) |-> LineLen(t[j]) + 1])

PlacedWords(t) ==
    ConcatAll([i \in 1..Len(t) |->
        [k \in 1..Len(t[i].words) |->
            [word |-> t[i].words[k], pos |-> LineStart(t, i) + WordStart(t[i], k)]]])

IsEmail(w) == w = "jobs@corp.io"
IsTgUser(w) == w \in {"@hr_bot", "@HR_BOT"}     \* @ + a letter + 4..31 more
IsTmeLink(w) == w = "t.me/hr_bot"
TmeUser(w) == "@hr_bot"                          \* "@" + group(1)

\* the offset of "hr" in the lower-cased word, -1 when it has none
HrOffset(w) ==
    CASE w = "hr" -> 0 [] w \in {"@hr_bot", "@HR_BOT"} -> 1 [] w = "t.me/hr_bot" -> 5
      [] OTHER -> 0 - 1

\* "hr" in the 30 characters before the match
TgLabel(ws, pos) ==
    IF \E k \in DOMAIN ws :
          /\ HrOffset(ws[k].word) >= 0
          /\ ws[k].pos + HrOffset(ws[k].word) >= Max2(0, pos - 30)
          /\ ws[k].pos + HrOffset(ws[k].word) + 2 <= pos
    THEN "HR" ELSE "None"

ContactInfo(type, value, label) == [type |-> type, value |-> value, label |-> label]

SelectWords(ws, Test(_)) == SelectSeq(ws, LAMBDA x : Test(x.word))

\* the calls of add_contact made for one searched text, in order
Candidates(search_in) ==
    LET ws == PlacedWords(search_in)
        emails == SelectWords(ws, IsEmail)
        tgs == SelectWords(ws, IsTgUser)
        tmes == SelectWords(ws, IsTmeLink)
    IN  [i \in 1..Len(emails) |-> ContactInfo("email", emails[i].word, "None")]
        \o [i \in 1..Len(tgs) |-> ContactInfo("telegram", tgs[i].word, TgLabel(ws, tgs[i].pos))]
        \o [i \in 1..Len(tmes) |-> ContactInfo("telegram", TmeUser(tmes[i].word), "None")]

\* faulty variant of the key of add_contact: the value as written
ExactValue(value) == value

\* value.lower().strip(): the matches hold no white space
ContactKey(value) == Lower(value)

\* add_contact: contacts and seen_values after one call
add_contact(st, c) ==
    IF ContactKey(c.value) \notin st.seen_values
    THEN [contacts |-> Append(st.contacts, c),
          seen_values |-> st.seen_values \cup {ContactKey(c.value)}]
    ELSE st

RECURSIVE AddAll(_, _)
AddAll(st, cs) == IF cs = <<>> THEN st ELSE AddAll(add_contact(st, Head(cs)), Tail(cs))

texts_to_search(text, secs) ==
    LET contact_section == FirstSection(secs, "contact")
        search_text == IF contact_section # None THEN contact_section[1].raw_content ELSE text
    IN  <<search_text>>
        \o (IF contact_section # None /\ search_text # text THEN <<text>> ELSE <<>>)

AllCandidates(text, secs) ==
    LET ts == texts_to_search(text, secs)
    IN  ConcatAll([i \in 1..Len(ts) |-> Candidates(ts[i])])

_extract_contacts(text, secs) ==
    AddAll([contacts |-> <<>>, seen_values |-> {}], AllCandidates(text, secs)).contacts

VacancySemantics(salary, experience_years, remote, contacts) ==
    [salary |-> salary, experience_years |-> experience_years, remote |-> remote,
     contacts |-> contacts]

EmptySemantics == VacancySemantics(None, None, None, <<>>)

SemanticsWith(salary, normalized_text, secs) ==
    IF salary.raised THEN [raised |-> TRUE, val |-> EmptySemantics]
    ELSE [raised |-> FALSE,
          val |-> VacancySemantics(salary.val, _extract_experience(normalized_text),
                                   _extract_remote_status(normalized_text),
                                   _extract_contacts(normalized_text, secs))]

\* [raised, val]
extract_semantics(normalized_text, secs) ==
    SemanticsWith(_extract_salary(normalized_text, secs), normalized_text, secs)

-----------------------------------------------------------------------------
(* Result assembly (parser.py, models.py). *)

CountConf(secs, c) == Cardinality({i \in DOMAIN secs : secs[i].confidence = c})

HasType(secs, type) == \E i \in DOMAIN secs : secs[i].type = type

\* confidence_score times 30 * total, an integer:
\* (3 high + 2 medium + low) / (3 total) + 0.1 [key] - 0.2 / 0.1 [warnings]
Score30(secs, num_warnings) ==
    LET total == Len(secs)
        has_key_sections == HasType(secs, "requirements") \/ HasType(secs, "responsibilities")
    IN  10 * (3 * CountConf(secs, "high") + 2 * CountConf(secs, "medium")
              + CountConf(secs, "low"))
        + (IF has_key_sections THEN 3 * total ELSE 0)
        - (IF num_warnings >= 3 THEN 6 * total
           ELSE IF num_warnings >= 1 THEN 3 * total ELSE 0)

\* faulty variant of _calculate_overall_confidence: a score below 0.4 of a
\* non-empty section list is mapped to MEDIUM
OverallNeverBelowMedium(secs, as, ws) ==
    IF secs = <<>> THEN "low"
    ELSE IF Score30(secs, Len(ws)) >= 21 * Len(secs) THEN "high"
    ELSE "medium"

\* faulty variant of _calculate_overall_confidence: MEDIUM needs a score of
\* 0.6 instead of 0.4
OverallMediumFromSixTenths(secs, as, ws) ==
    IF secs = <<>> THEN "low"
    ELSE IF Score30(secs, Len(ws)) >= 21 * Len(secs) THEN "high"
    ELSE IF Score30(secs, Len(ws)) >= 18 * Len(secs) THEN "medium"
    ELSE "low"

\* score >= 0.7 / score >= 0.4 in double arithmetic: the comparisons agree
\* with the exact ones except that x - 0.2 with exact value 0.4 is computed
\* as 0.39999999999999997 (up to 14 sections)
_calculate_overall_confidence(secs, as, ws) ==
    LET total == Len(secs)
        s30 == Score30(secs, Len(ws))
    IN  IF secs = <<>> THEN "low"
        ELSE IF s30 >= 21 * total THEN "high"
        ELSE IF s30 > 12 * total \/ (s30 = 12 * total /\ Len(ws) < 3) THEN "medium"
        ELSE "low"

\* bool(Optional[int]): None and 0 are false
Truthy(opt) == opt # None /\ opt[1] # 0

INVALID_RANGE == "Invalid salary range (min > max)"

_validate_result(secs, sem) ==
    LET dup == SelectSeq([i \in 1..Len(secs) |-> i],
                         LAMBDA i : secs[i].type # "intro"
                                    /\ \E k \in 1..(i - 1) : secs[k].type = secs[i].type)
        empty == SelectSeq([i \in 1..Len(secs) |-> i],
                           LAMBDA i : secs[i].type # "intro" /\ Len(secs[i].content) = 0)
        salary == sem.salary
    IN  [i \in 1..Len(dup) |-> "Duplicate section detected: " \o secs[dup[i]].type]
        \o [i \in 1..Len(empty) |-> "Empty section: " \o secs[empty[i]].type]
        \o (IF salary # None /\ Truthy(salary[1].min) /\ Truthy(salary[1].max)
               /\ salary[1].min[1] > salary[1].max[1]
            THEN <<INVALID_RANGE>> ELSE <<>>)

\* faulty variant of needs_llm_clarification: low_count >= len(sections) / 2
HalfOrMoreLow(overall, secs) ==
    IF overall = "low" THEN TRUE
    ELSE 2 * CountConf(secs, "low") >= Len(secs)

\* ParsedVacancy.needs_llm_clarification: low_count > len(sections) / 2
needs_llm_clarification(overall, secs) ==
    IF overall = "low" THEN TRUE
    ELSE 2 * CountConf(secs, "low") > Len(secs)

-----------------------------------------------------------------------------
(* parse_vacancy as a state machine: one step per stage of parser.py. *)

\* raw lines of the documents explored
RawLines ==
    { EmptyLine,
      Line(2, "none", <<>>, FALSE),
      Line(0, "none", <<"EMOJI">>, FALSE),
      Line(0, "glyph", <<"sql">>, FALSE),
      Line(0, "glyph", <<"we", "build", "company", "games">>, FALSE),
      Line(0, "none", <<"requirements">>, TRUE),
      Line(0, "none", <<"company">>, TRUE),
      Line(0, "none", <<"overview">>, FALSE),
      Line(0, "none", <<"budget", "200", "-", "100">>, FALSE) }

\* the locals of a call parse_vacancy(text) before its first step
CallState(text) ==
    [raw_text |-> text, pc |-> "start", stages |-> <<>>, normalized |-> <<>>,
     anchors |-> <<>>, sections |-> <<>>, semantics |-> EmptySemantics,
     overall_confidence |-> "unset", warnings |-> <<>>]

\* the locals of the running call are those of c
Running(c) ==
    /\ raw_text = c.raw_text
    /\ pc = c.pc
    /\ stages = c.stages
    /\ normalized = c.normalized
    /\ anchors = c.anchors
    /\ sections = c.sections
    /\ semantics = c.semantics
    /\ overall_confidence = c.overall_confidence
    /\ warnings = c.warnings

\* one call, alone in its process
Fresh(text) ==
    /\ Running(CallState(text))
    /\ needs_llm = FALSE
    /\ registry = SECTION_RULES
    /\ peer = None

Init == \E text \in SeqsUpTo(RawLines, MaxLines) : Fresh(text)

\* faulty variant of StageAfter: the validator runs before the confidence
\* is computed
ValidateBeforeConfidence(p) ==
    CASE p = "start" -> "normalize" [] p = "normalize" -> "detect"
      [] p = "detect" -> "segment" [] p = "segment" -> "merge"
      [] p = "merge" -> "split" [] p = "split" -> "semantics"
      [] p = "semantics" -> "validate" [] p = "validate" -> "confidence"
      [] p = "confidence" -> "returned"

\* the statement of parse_vacancy that follows the one at position p
\* (parser.py 33-64); the positions are named after the stage they run
StageAfter(p) ==
    CASE p = "start" -> "normalize" [] p = "normalize" -> "detect"
      [] p = "detect" -> "segment" [] p = "segment" -> "merge"
      [] p = "merge" -> "split" [] p = "split" -> "semantics"
      [] p = "semantics" -> "confidence" [] p = "confidence" -> "validate"
      [] p = "validate" -> "returned"

\* parser.py 23-31: not raw_text or not raw_text.strip()
EmptyGuard ==
    /\ pc = "start"
    /\ IF IsBlankText(raw_text)
       THEN /\ pc' = "returned"
            /\ overall_confidence' = "low"
            /\ warnings' = <<"Empty input text">>
       ELSE /\ pc' = StageAfter(pc)
            /\ UNCHANGED <<overall_confidence, warnings>>
    /\ UNCHANGED <<registry, peer, raw_text, stages, normalized, anchors, sections, semantics, needs_llm>>

Normalize ==
    /\ pc = "normalize"
    /\ \E text \in {normalize_text(raw_text)} :
          /\ normalized' = text
          /\ warnings' = IF TextLen(text) < 50
                         THEN Append(warnings, "Very short text after normalization")
                         ELSE warnings
    /\ stages' = Append(stages, "normalize")
    /\ pc' = StageAfter(pc)
    /\ UNCHANGED <<registry, peer, raw_text, anchors, sections, semantics, overall_confidence, needs_llm>>

\* the iteration order of the keyword frozensets is fixed per process and
\* differs between processes (string hashing is randomised)
DetectAnchors ==
    /\ pc = "detect"
    /\ \E as \in {detect_section_anchors(normalized, order) : order \in HashOrders} :
          /\ anchors' = as
          /\ warnings' = IF as = <<>>
                         THEN Append(warnings, "No section headers detected")
                         ELSE warnings
    /\ stages' = Append(stages, "anchors")
    /\ pc' = StageAfter(pc)
    /\ UNCHANGED <<registry, peer, raw_text, normalized, sections, semantics, overall_confidence, needs_llm>>

Segment ==
    /\ pc = "segment"
    /\ \E secs \in {parse_section_content(normalized, anchors)} : sections' = secs
    /\ stages' = Append(stages, "content")
    /\ pc' = StageAfter(pc)
    /\ UNCHANGED <<registry, peer, raw_text, normalized, anchors, semantics, overall_confidence, warnings,
                   needs_llm>>

MergeIntro ==
    /\ pc = "merge"
    /\ \E secs \in {merge_intro_with_about(sections)} : sections' = secs
    /\ stages' = Append(stages, "merge_intro")
    /\ pc' = StageAfter(pc)
    /\ UNCHANGED <<registry, peer, raw_text, normalized, anchors, semantics, overall_confidence, warnings,
                   needs_llm>>

SplitLong ==
    /\ pc = "split"
    /\ \E secs \in {split_long_paragraphs(sections)} : sections' = secs
    /\ stages' = Append(stages, "split_long")
    /\ pc' = StageAfter(pc)
    /\ UNCHANGED <<registry, peer, raw_text, normalized, anchors, semantics, overall_confidence, warnings,
                   needs_llm>>

\* an exception of a stage leaves parse_vacancy: pc = "raised"
ExtractSemantics ==
    /\ pc = "semantics"
    /\ \E r \in {extract_semantics(normalized, sections)} :
          IF r.raised
          THEN pc' = "raised" /\ UNCHANGED semantics
          ELSE pc' = StageAfter(pc) /\ semantics' = r.val
    /\ stages' = Append(stages, "semantics")
    /\ UNCHANGED <<registry, peer, raw_text, normalized, anchors, sections, overall_confidence, warnings,
                   needs_llm>>

CalculateConfidence ==
    /\ pc = "confidence"
    /\ \E level \in {_calculate_overall_confidence(sections, anchors, warnings)} :
          overall_confidence' = level
    /\ stages' = Append(stages, "confidence")
    /\ pc' = StageAfter(pc)
    /\ UNCHANGED <<registry, peer, raw_text, normalized, anchors, sections, semantics, warnings, needs_llm>>

Validate ==
    /\ pc = "validate"
    /\ \E found \in {_validate_result(sections, semantics)} :
          warnings' = warnings \o found
    /\ stages' = Append(stages, "validate")
    /\ pc' = StageAfter(pc)
    /\ UNCHANGED <<registry, peer, raw_text, normalized, anchors, sections, semantics, overall_confidence,
                   needs_llm>>

Next ==
    \/ EmptyGuard
    \/ Normalize
    \/ DetectAnchors
    \/ Segment
    \/ MergeIntro
    \/ SplitLong
    \/ ExtractSemantics
    \/ CalculateConfidence
    \/ Validate

Spec == Init /\ [][Next]_vars

\* One-line salary phrases: every phrase of up to MaxTokens tokens in which
\* no two numbers are adjacent, and the range phrase "ot 150000 do 200000 rub"
\* (Cyrillic in the source).
SalaryTokens == {"ot", "do", "-", "rub", "150000", "200000", "0", "100k"}

NoAdjacentNumbers(toks) ==
    \A i \in 1..(Len(toks) - 1) : ~(IsNumeric(toks[i]) /\ IsNumeric(toks[i + 1]))

RangePhrase == <<"ot", "150000", "do", "200000", "rub">>

FromPhrase == <<"from", "100k">>

UpToPhrase == <<"up", "to", "200k">>

SalaryTexts ==
    { <<MkLine(toks)>> :
        toks \in {t \in SeqsUpTo(SalaryTokens, MaxTokens) : t # <<>> /\ NoAdjacentNumbers(t)} }
    \cup { <<>>, <<MkLine(RangePhrase)>>, <<MkLine(FromPhrase)>>, <<MkLine(UpToPhrase)>> }

InitSalary == \E text \in SalaryTexts : Fresh(text)

SpecSalary == InitSalary /\ [][Next]_vars

\* Contact texts: a CONTACT header, handles in both cases, a link to the
\* same handle, an address.
ContactLines ==
    { Line(0, "none", <<"contact">>, TRUE),
      Line(0, "none", <<"@hr_bot">>, FALSE),
      Line(0, "none", <<"@HR_BOT">>, FALSE),
      Line(0, "none", <<"hr", "@hr_bot">>, FALSE),
      Line(0, "none", <<"t.me/hr_bot">>, FALSE),
      Line(0, "none", <<"jobs@corp.io">>, FALSE) }

InitContacts == \E text \in SeqsUpTo(ContactLines, MaxLines) : Fresh(text)

SpecContacts == InitContacts /\ [][Next]_vars

\* Documents of headers: two headers, a line on which two keywords of one
\* set match ("pay" and "rate" of the SALARY rule), a line of 49 characters
\* that an alt keyword matches (score 30 without a blank neighbour), a
\* bullet, an empty line, a line that normalization deletes.
AnchorLines ==
    { EmptyLine,
      Line(0, "none", <<"EMOJI">>, FALSE),
      Line(0, "dash", <<"sql">>, FALSE),
      Line(0, "none", <<"requirements">>, TRUE),
      Line(0, "none", <<"overview">>, FALSE),
      Line(0, "none", <<"pay", "rate">>, FALSE),
      Line(0, "none", <<"overview", "we", "build", "games", "we", "build", "games",
                        "python", "sql">>, FALSE) }

InitAnchors == \E text \in SeqsUpTo(AnchorLines, MaxAnchorLines) : Fresh(text)

SpecAnchors == InitAnchors /\ [][Next]_vars

\* A ParsedVacancy as any caller may build it (models.py): any overall
\* confidence over sections of any confidences.
SectionOfConfidence(c) == VacancySection("requirements", <<>>, <<>>, c, 0, 0)

InitResult ==
    /\ raw_text = <<>>
    /\ pc = "returned"
    /\ stages = <<>>
    /\ normalized = <<>>
    /\ anchors = <<>>
    /\ \E cs \in SeqsUpTo(Confidences, MaxSections) :
          sections = [i \in 1..Len(cs) |-> SectionOfConfidence(cs[i])]
    /\ semantics = EmptySemantics
    /\ overall_confidence \in Confidences
    /\ warnings = <<>>
    /\ needs_llm = FALSE
    /\ registry = SECTION_RULES
    /\ peer = None

NeedsLlmClarification ==
    /\ pc = "returned"
    /\ needs_llm' = needs_llm_clarification(overall_confidence, sections)
    /\ pc' = "asked"
    /\ UNCHANGED <<registry, peer, raw_text, stages, normalized, anchors, sections, semantics,
                   overall_confidence, warnings>>

NextResult == NeedsLlmClarification

SpecResult == InitResult /\ [][NextResult]_vars

\* The two-section example: a REQUIREMENTS header ("trebovaniya:"), two
\* bullet items, a blank line, a RESPONSIBILITIES header ("obyazannosti:"),
\* one bullet item; every bullet under any marker that the normalizer
\* unifies, every item any of a few words.
BulletMarks == {"dash", "glyph", "num"}

ItemWords == {"python", "sql", "razrabotka"}

Header(w) == Line(0, "none", <<w>>, TRUE)

Bullet(m, w) == Line(0, m, <<w>>, FALSE)

ExampleText(m1, m2, m3, w1, w2, w3) ==
    << Header("trebovaniya"), Bullet(m1, w1), Bullet(m2, w2), EmptyLine,
       Header("obyazannosti"), Bullet(m3, w3) >>

InitExample ==
    \E m1, m2, m3 \in BulletMarks, w1, w2, w3 \in ItemWords :
        Fresh(ExampleText(m1, m2, m3, w1, w2, w3))

SpecExample == InitExample /\ [][Next]_vars

\* Texts for the normalizer: a bullet under each kind of marker, indented
\* or not, plain text, the lines normalization deletes (blank, decorative,
\* emoji only), and first-line noise prefixes alone, before text, indented.
NormLines ==
    { Line(2, "glyph", <<"sql">>, FALSE),
      Line(2, "star", <<"sql">>, FALSE),
      Line(2, "num", <<"sql">>, FALSE),
      Line(0, "dash", <<"sql">>, FALSE),
      Line(0, "none", <<"dev">>, FALSE),
      EmptyLine,
      Line(0, "none", <<"===">>, FALSE),
      Line(0, "none", <<"EMOJI">>, FALSE),
      Line(0, "none", <<"vacancy:">>, FALSE),
      Line(0, "none", <<"vacancy:", "dev">>, FALSE),
      Line(2, "none", <<"vacancy:", "dev">>, FALSE) }

InitNormalize == \E text \in SeqsUpTo(NormLines, MaxLines) : Fresh(text)

SpecNormalize == InitNormalize /\ [][Next]_vars

\* Two calls of parse_vacancy in one process (two threads).  The variables
\* of the pipeline are the locals of the call that is running; peer holds
\* the locals of the call that is suspended.  A thread switch may come
\* between any two stages.  The calls share the registry and nothing else.
Current ==
    [raw_text |-> raw_text, pc |-> pc, stages |-> stages, normalized |-> normalized,
     anchors |-> anchors, sections |-> sections, semantics |-> semantics,
     overall_confidence |-> overall_confidence, warnings |-> warnings]

\* faulty variant of Resume: the section list is one module-level list that
\* both calls write
ResumeSharingSections(saved, current) == [saved EXCEPT !.sections = current.sections]

\* the locals a call finds when it is resumed: its own, as it left them
Resume(saved, current) == saved

Switch ==
    /\ peer # None
    /\ \E c \in {Resume(peer[1], Current)} :
          /\ raw_text' = c.raw_text
          /\ pc' = c.pc
          /\ stages' = c.stages
          /\ normalized' = c.normalized
          /\ anchors' = c.anchors
          /\ sections' = c.sections
          /\ semantics' = c.semantics
          /\ overall_confidence' = c.overall_confidence
          /\ warnings' = c.warnings
    /\ peer' = Some(Current)
    /\ UNCHANGED <<registry, needs_llm>>

\* texts that take the stages through their branches: an intro that is
\* reclassified and a header with a bullet, a header that two keywords of
\* one set match, a salary range and a header without content, no text,
\* white space
ConcurrentTexts ==
    { << Line(0, "glyph", <<"we", "build", "company", "games">>, FALSE),
         Line(0, "none", <<"requirements">>, TRUE),
         Line(0, "glyph", <<"sql">>, FALSE) >>,
      << Line(0, "none", <<"pay", "rate">>, FALSE) >>,
      << Line(0, "none", <<"budget", "200", "-", "100">>, FALSE),
         Line(0, "none", <<"overview">>, FALSE) >>,
      <<>>,
      << Line(2, "none", <<>>, FALSE) >> }

InitConcurrent ==
    \E text1, text2 \in ConcurrentTexts :
        /\ Running(CallState(text1))
        /\ needs_llm = FALSE
        /\ registry = SECTION_RULES
        /\ peer = Some(CallState(text2))

NextConcurrent == Next \/ Switch

SpecConcurrent == InitConcurrent /\ [][NextConcurrent]_vars

\* Documents of header lines that differ in their closing colon and in the
\* position multiplier of the matching rule (REQUIREMENTS 1.0,
\* ABOUT_COMPANY 1.2, CONTACT 0.8).
ScoreLines ==
    { EmptyLine,
      Line(0, "none", <<"requirements">>, FALSE),
      Line(0, "none", <<"requirements">>, TRUE),
      Line(0, "none", <<"requirements", "FWCOLON">>, FALSE),
      Line(0, "none", <<"contact">>, FALSE),
      Line(0, "none", <<"company">>, FALSE) }

InitScore == \E text \in SeqsUpTo(ScoreLines, MaxAnchorLines) : Fresh(text)

SpecScore == InitScore /\ [][Next]_vars

\* Documents of work-format phrases: positive, negative and hybrid
\* indicators, one positive indicator that contains another.
RemoteLines ==
    { Line(0, "none", <<"remote">>, FALSE),
      Line(0, "none", <<"remotely">>, FALSE),
      Line(0, "none", <<"office">>, FALSE),
      Line(0, "dash", <<"onsite", "python">>, FALSE),
      Line(0, "none", <<"hybrid">>, FALSE),
      Line(0, "none", <<"python">>, FALSE) }

InitRemote == \E text \in SeqsUpTo(RemoteLines, MaxLines) : Fresh(text)

SpecRemote == InitRemote /\ [][Next]_vars

\* Documents with decorative lines: runs of each kind of character, a line
\* of spaces, an empty line, a bullet and a line of text.
DecorLines ==
    { Line(0, "none", <<"===">>, FALSE),
      Line(0, "none", <<"---">>, FALSE),
      Line(0, "none", <<"***">>, FALSE),
      Line(0, "none", <<"###">>, FALSE),
      Line(2, "none", <<>>, FALSE),
      EmptyLine,
      Line(0, "dash", <<"sql">>, FALSE),
      Line(0, "none", <<"dev">>, FALSE) }

InitDecor == \E text \in SeqsUpTo(DecorLines, MaxLines) : Fresh(text)

SpecDecor == InitDecor /\ [][Next]_vars

\* Documents for the reclassification of the intro: up to MaxIntroItems
\* bullets (a company description, a neutral item, an item with a
\* requirement signal), then nothing, an ABOUT_COMPANY header or a
\* REQUIREMENTS header with one item.
IntroBullets ==
    { Line(0, "glyph", <<"we", "build", "company", "games">>, FALSE),
      Line(0, "dash", <<"sql">>, FALSE),
      Line(0, "dash", <<"skills">>, FALSE) }

IntroTails ==
    { <<>>,
      << Line(0, "none", <<"company">>, TRUE) >>,
      << Line(0, "none", <<"requirements">>, TRUE), Line(0, "dash", <<"python">>, FALSE) >> }

InitIntro ==
    \E head \in SeqsUpTo(IntroBullets, MaxIntroItems), tail \in IntroTails : Fresh(head \o tail)

SpecIntro == InitIntro /\ [][Next]_vars

\* Documents of one paragraph or one bullet of up to MaxTokens + 1 tokens: a
\* long sentence, sentences of 21 and of exactly 20 characters, a word that
\* continues a sentence; and the bullets followed by a continuation line.
SentenceWords == {"L190.", "M21.", "E20.", "dev"}

SplitTexts ==
    LET paragraphs == SeqsUpTo(SentenceWords, MaxTokens + 1) \ {<<>>}
    IN  { <<Line(0, m, ws, FALSE)>> : m \in {"none", "dash"}, ws \in paragraphs }
        \cup { <<Line(0, "dash", ws, FALSE), Line(2, "none", <<"M21.">>, FALSE)>> :
                  ws \in paragraphs }

InitSplit == \E text \in SplitTexts : Fresh(text)

SpecSplit == InitSplit /\ [][Next]_vars

-----------------------------------------------------------------------------
(* Properties. *)

Returned == pc = "returned"

\* the sections whose [start_line, end_line] holds line k
Covering(k) ==
    {i \in DOMAIN sections : sections[i].start_line <= k /\ k <= sections[i].end_line}

\* the ranges lie inside 0 .. n - 1 and every line is in exactly one of them
PartitionsLines(n) ==
    /\ \A i \in DOMAIN sections :
          /\ 0 <= sections[i].start_line
          /\ sections[i].start_line <= sections[i].end_line
          /\ sections[i].end_line <= n - 1
    /\ \A k \in 0..(n - 1) : Cardinality(Covering(k)) = 1

\* C1 as stated: for every raw input the section ranges of the result are
\* pairwise disjoint and their union is 0 .. (number of lines of
\* normalized_text) - 1, the lines counted as the code counts them
\* (get_lines).  An empty normalized text is one line and no section.
C1_PartitionEveryInput == Returned => PartitionsLines(Len(get_lines(normalized)))

\* C1 amended: when the normalized text is not empty the section ranges
\* partition its lines exactly; when it is empty there is no section.
C1_Partition ==
    Returned => IF normalized = <<>> THEN sections = <<>>
                ELSE PartitionsLines(Len(normalized))

C1_Witness ==
    /\ Returned
    /\ Len(sections) >= 2
    /\ \E i \in DOMAIN sections : sections[i].end_line > sections[i].start_line

\* C2: the anchors returned by detect_section_anchors are strictly ascending
\* by line index and no two of them have the same section category.
C2_AnchorsSortedOnePerCategory ==
    \A i, j \in DOMAIN anchors :
        i < j => /\ anchors[i].line_number < anchors[j].line_number
                 /\ anchors[i].section_type # anchors[j].section_type

C2_Witness == pc = "segment" /\ Len(anchors) >= 2

HasToken(Test(_)) == \E i \in DOMAIN TextTokens(normalized) : Test(TextTokens(normalized)[i])

IsContactWord(w) == IsEmail(w) \/ IsTgUser(w) \/ IsTmeLink(w)

IsExperienceWord(w) == w = "experience" \/ w \in YearsWords

\* a pattern or keyword that matches nothing leaves its field absent, and a
\* text without headers yields Low confidence and a warning
AbsentWhenUnmatched ==
    /\ ~HasToken(IsNumeric) => semantics.salary = None
    /\ ~HasToken(IsContactWord) => semantics.contacts = <<>>
    /\ ~HasToken(IsExperienceWord) => semantics.experience_years = None
    /\ anchors = <<>> =>
          /\ \A i \in DOMAIN sections : sections[i].type = "intro"
          /\ overall_confidence = "low"
          /\ warnings # <<>>

\* the stages in the order parse_vacancy runs them
StageOrder ==
    <<"normalize", "anchors", "content", "merge_intro", "split_long", "semantics",
      "confidence", "validate">>

\* the positions from which exactly one stage, a total function, runs next
RunningPcs ==
    {"start", "normalize", "detect", "segment", "merge", "split", "semantics",
     "confidence", "validate"}

\* C3: parse_vacancy never raises: it is at a stage that runs next, having
\* run the stages before it once each, or it has returned; in the result a
\* pattern or keyword that matched nothing has left its field absent, and
\* incomplete text shows as Low confidence and warnings.
C3_NeverRaises ==
    /\ pc \in RunningPcs \cup {"returned"}
    /\ IsPrefix(stages, StageOrder)
    /\ Returned => AbsentWhenUnmatched

\* a returned parse whose "from" match holds a number int() cannot read
C3_Witness ==
    /\ Returned
    /\ Search("from", TextTokens(normalized)) # None
    /\ IntRaises(Search("from", TextTokens(normalized))[1].min)

\* the raw text is empty or holds white space only
BlankInput ==
    \A i \in DOMAIN raw_text :
        raw_text[i].words = <<>> /\ raw_text[i].mark = "none" /\ ~raw_text[i].colon

\* C4: on the empty string or white space only, parse_vacancy returns no
\* section, overall confidence Low and the "Empty input text" warning, and
\* runs neither normalization nor anchor detection nor any later stage.
C4_EmptyInput ==
    BlankInput =>
        /\ pc \in {"start", "returned"}
        /\ stages = <<>>
        /\ normalized = <<>>
        /\ Returned => /\ sections = <<>>
                       /\ overall_confidence = "low"
                       /\ "Empty input text" \in Range(warnings)

C4_Witness == Returned /\ BlankInput /\ \E i \in DOMAIN raw_text : raw_text[i].ind > 0

AnchorView(a) ==
    [section_type |-> a.section_type, line_number |-> a.line_number,
     score |-> a.score, confidence |-> a.confidence]

AnchorViews(as) == [i \in 1..Len(as) |-> AnchorView(as[i])]

\* C5: the anchors (category, line index, score, confidence) detected on a
\* normalized text are the same under every iteration order of the keyword
\* sets.
C5_AnchorsIndependentOfOrder ==
    pc \notin {"start", "normalize", "detect"} =>
        \A order \in HashOrders :
            AnchorViews(detect_section_anchors(normalized, order)) = AnchorViews(anchors)

\* C6: for a result with at least one section, overall_confidence is the
\* level of the score computed from the sections and from the number of
\* warnings the result has.
C6_ConfidenceFromResultWarnings ==
    Returned /\ sections # <<>> =>
        overall_confidence = _calculate_overall_confidence(sections, anchors, warnings)

LowSections == {i \in DOMAIN sections : sections[i].confidence = "low"}

\* C7: needs_llm_clarification() is true exactly when the overall confidence
\* is Low or the Low sections outnumber the other sections.
C7_NeedsLlm ==
    pc = "asked" =>
        (needs_llm <=> \/ overall_confidence = "low"
                       \/ Cardinality(LowSections) > Cardinality(DOMAIN sections \ LowSections))

C7_Witness == pc = "asked" /\ needs_llm /\ overall_confidence # "low"

Contacts == semantics.contacts

\* C8: no two contacts of a result have the same value up to case; each is
\* the first add_contact call with its value, and every value found is kept
\* once.
C8_ContactsDeduplicated ==
    /\ \A i, j \in DOMAIN Contacts :
          i # j => Lower(Contacts[i].value) # Lower(Contacts[j].value)
    /\ pc \in {"confidence", "validate"} \/ (Returned /\ stages # <<>>) =>
          LET cands == AllCandidates(normalized, sections)
          IN  /\ \A i \in DOMAIN Contacts :
                    \E k \in DOMAIN cands :
                        /\ cands[k] = Contacts[i]
                        /\ \A m \in 1..(k - 1) : Lower(cands[m].value) # Lower(cands[k].value)
              /\ \A k \in DOMAIN cands :
                    \E i \in DOMAIN Contacts : Lower(Contacts[i].value) = Lower(cands[k].value)

\* the handle occurs in capitals after its lower-case form, which is kept
C8_Witness ==
    /\ Returned
    /\ \E k \in DOMAIN AllCandidates(normalized, sections) :
          AllCandidates(normalized, sections)[k].value = "@HR_BOT"
    /\ \E i \in DOMAIN Contacts : Contacts[i].value = "@hr_bot"

\* C9: whenever the salary of a result has both min and max and min > max,
\* the warnings of the result hold the invalid-range warning.
C9_InvalidRangeFlagged ==
    Returned /\ semantics.salary # None =>
        LET salary == semantics.salary[1]
        IN  salary.min # None /\ salary.max # None /\ salary.min[1] > salary.max[1]
                => INVALID_RANGE \in Range(warnings)

\* C10: parsing "ot 150000 do 200000 rub" (Cyrillic in the source) yields a
\* salary with min 150000, max 200000, currency RUB, period month.
C10_RangePhraseParsed ==
    Returned /\ raw_text = <<MkLine(RangePhrase)>> =>
        /\ semantics.salary # None
        /\ semantics.salary[1].min = Some(150000)
        /\ semantics.salary[1].max = Some(200000)
        /\ semantics.salary[1].currency = "RUB"
        /\ semantics.salary[1].period = "month"

\* the item parsed from the bullet on raw line k (1-based)
ItemOfRawLine(k) == _create_item(<<Line(0, "none", raw_text[k].words, FALSE)>>, TRUE)

\* C11: the example text yields exactly two sections, REQUIREMENTS then
\* RESPONSIBILITIES, both High, the first with exactly its two bullet items
\* and the second with its one, and overall confidence High.
C11_TwoSectionExample ==
    Returned =>
        /\ Len(sections) = 2
        /\ sections[1].type = "requirements"
        /\ sections[2].type = "responsibilities"
        /\ sections[1].confidence = "high"
        /\ sections[2].confidence = "high"
        /\ sections[1].content = <<ItemOfRawLine(2), ItemOfRawLine(3)>>
        /\ sections[2].content = <<ItemOfRawLine(6)>>
        /\ overall_confidence = "high"

C11_Witness ==
    /\ Returned
    /\ raw_text[2].mark = "glyph" /\ raw_text[6].mark = "num"
    /\ Len(sections) = 2

Normalized == pc \notin {"start", "normalize"}

\* C12: normalize_text rewrites every line indentation + marker + text, the
\* marker a glyph of BULLET_MARKERS or a numbered prefix, into indentation +
\* "- " + text, the indentation unchanged on a line that is neither first
\* nor last.  (When no line is deleted the lines of the output are the
\* lines of the input, position by position.)
C12_BulletsUnified ==
    Normalized /\ Len(normalized) = Len(raw_text) =>
        \A i \in DOMAIN raw_text :
            raw_text[i].mark \in {"glyph", "star", "num"} /\ raw_text[i].words # <<>> =>
                /\ normalized[i].mark = "dash"
                /\ normalized[i].words = raw_text[i].words
                /\ 1 < i /\ i < Len(raw_text) => normalized[i].ind = raw_text[i].ind

\* neither a raw bullet marker nor a decorative line
IsCanonical(t) ==
    \A i \in DOMAIN t : t[i].mark \in {"none", "dash"} /\ ~IsDecorative(t[i])

\* C13: normalize_text(normalize_text(x)) = normalize_text(x) whenever
\* normalize_text(x) holds no raw bullet marker and no decorative line.
C13_NormalizeIdempotent ==
    Normalized /\ IsCanonical(normalized) => normalize_text(normalized) = normalized

\* what a call returns to its caller
ResultOf(c) ==
    [normalized |-> c.normalized, sections |-> c.sections, semantics |-> c.semantics,
     overall_confidence |-> c.overall_confidence, warnings |-> c.warnings]

ShortTextWarning(n) ==
    IF TextLen(n) < 50 THEN <<"Very short text after normalization">> ELSE <<>>

NoHeadersWarning(as) == IF as = <<>> THEN <<"No section headers detected">> ELSE <<>>

AloneResult(n, as, secs, sem, ws) ==
    [normalized |-> n, sections |-> secs, semantics |-> sem,
     overall_confidence |-> _calculate_overall_confidence(secs, as, ws),
     warnings |-> ws \o _validate_result(secs, sem)]

AloneSegmented(n, as, secs) ==
    AloneResult(n, as, secs, extract_semantics(n, secs).val,
                ShortTextWarning(n) \o NoHeadersWarning(as))

AloneAnchored(n, as) ==
    AloneSegmented(n, as,
        split_long_paragraphs(merge_intro_with_about(parse_section_content(n, as))))

\* the result of parse_vacancy(text) run with no other call in the process,
\* under one iteration order of the keyword sets
ParseAlone(text, order) ==
    IF IsBlankText(text)
    THEN [normalized |-> <<>>, sections |-> <<>>, semantics |-> EmptySemantics,
          overall_confidence |-> "low", warnings |-> <<"Empty input text">>]
    ELSE AloneAnchored(normalize_text(text), detect_section_anchors(normalize_text(text), order))

\* the calls of the process: the running one and the suspended one
Calls == {Current} \cup Range(peer)

\* C14: no step of parse_vacancy writes the rule registry, and under every
\* interleaving of two calls each call returns what it returns when run
\* alone.
C14_ConcurrentCallsIndependent ==
    /\ registry = SECTION_RULES
    /\ \A c \in Calls :
          c.pc = "returned" =>
              \E order \in HashOrders : ResultOf(c) = ParseAlone(c.raw_text, order)

\* a call has run from start to return while the other one was suspended
\* between two stages, holding its own sections
C14_Witness ==
    /\ Returned
    /\ peer # None
    /\ peer[1].pc = "merge"
    /\ peer[1].sections # sections
    /\ Len(sections) = 2 /\ Len(peer[1].sections) = 2

Detected == pc \notin {"start", "normalize", "detect"}

\* the anchors that survive the per-category selection of _resolve_conflicts,
\* in line order
Selected(order) ==
    LET as == ScanAnchors(get_lines(normalized), 0, order)
    IN  IF Len(as) <= 1 THEN as ELSE SortByLine(TypeToBest(as, <<>>))

\* C15: an anchor that survived the per-category selection is missing from
\* the returned list only when the returned list holds an anchor within 2
\* lines of it whose score is at least as high.
C15_RemovedOnlyByNearHigher ==
    Detected =>
        \A order \in HashOrders :
            \A a \in Range(Selected(order)) :
                a \notin Range(detect_section_anchors(normalized, order)) =>
                    \E b \in Range(detect_section_anchors(normalized, order)) :
                        /\ Abs(b.line_number - a.line_number) <= 2
                        /\ b.score >= a.score

\* C16: any two distinct anchors of the returned list are more than 2 lines
\* apart.
C16_AnchorsMoreThanTwoApart ==
    \A i, j \in DOMAIN anchors :
        i # j => Abs(anchors[i].line_number - anchors[j].line_number) > 2

\* two anchors are returned and the proximity pass has removed a third
C16_Witness ==
    /\ Detected
    /\ Len(anchors) = 2
    /\ \E order \in HashOrders : Len(Selected(order)) = 3

\* C17: every returned anchor has score >= 35, lies on a line that is
\* neither blank nor a canonical bullet line, and is High exactly when its
\* score is >= 60 and Medium otherwise, never Low.
C17_AnchorScoreAndConfidence ==
    \A i \in DOMAIN anchors :
        /\ anchors[i].score >= 35
        /\ anchors[i].line_number + 1 \in DOMAIN get_lines(normalized)
        /\ ~is_empty_line(get_lines(normalized)[anchors[i].line_number + 1])
        /\ ~is_bullet_line(get_lines(normalized)[anchors[i].line_number + 1])
        /\ anchors[i].confidence = (IF anchors[i].score >= 60 THEN "high" ELSE "medium")

\* a High and a Medium anchor are returned, and a line that an alt keyword
\* matches with score 30 is not among them
C17_Witness ==
    /\ Detected
    /\ \E i, j \in DOMAIN anchors :
          anchors[i].confidence = "high" /\ anchors[j].confidence = "medium"
    /\ \E k \in DOMAIN normalized :
          /\ Len(normalized[k].words) = 9
          /\ \A i \in DOMAIN anchors : anchors[i].line_number # k - 1

\* one step of a call: the stage it runs is the next of the order; the
\* confidence stage sets overall_confidence and leaves the warnings alone;
\* the validator runs after it, appends its warnings and leaves
\* overall_confidence alone; a call on a non-blank text returns having run
\* the whole order
C18_Step ==
    /\ stages' # stages => stages' = SubSeq(StageOrder, 1, Len(stages) + 1)
    /\ stages' = stages => pc = "start"
    /\ Len(stages') = 7 /\ Len(stages) = 6 =>
          /\ overall_confidence' = _calculate_overall_confidence(sections, anchors, warnings)
          /\ warnings' = warnings
    /\ Len(stages') = 8 /\ Len(stages) = 7 =>
          /\ overall_confidence' = overall_confidence
          /\ warnings' = warnings \o _validate_result(sections, semantics)
    /\ pc' = "returned" /\ ~IsBlankText(raw_text) => stages' = StageOrder

\* C18: on a non-blank input parse_vacancy runs each stage once, in the
\* order normalize, detect anchors, segment content, reclassify intro, split
\* long paragraphs, extract semantics, compute confidence, validate, and
\* then returns; the confidence is computed before the validator's warnings
\* are added.
C18_StagesOnceInOrder == [](IsPrefix(stages, StageOrder)) /\ [][C18_Step]_vars

\* a call has returned whose validator added the invalid-range warning to a
\* result of High confidence
C18_Witness ==
    /\ Returned
    /\ stages = StageOrder
    /\ INVALID_RANGE \in Range(warnings)
    /\ overall_confidence = "high"

DuplicateWarnings == {"Duplicate section detected: " \o t : t \in SectionTypes}

\* C19: no two sections of a result have the same category, and the
\* warnings of a result hold no 'Duplicate section detected' warning.
C19_NoDuplicateSections ==
    Returned =>
        /\ \A i, j \in DOMAIN sections : i # j => sections[i].type # sections[j].type
        /\ Range(warnings) \cap DuplicateWarnings = {}

\* an intro that looks like a company description stays INTRO beside an
\* ABOUT_COMPANY section
C19_Witness ==
    /\ Returned
    /\ \E i, j \in DOMAIN sections :
          /\ sections[i].type = "intro"
          /\ _looks_like_about_company(sections[i])
          /\ sections[j].type = "about_company"

\* C20: on every result of parse_vacancy, needs_llm_clarification() is true
\* exactly when the overall confidence is Low.
C20_NeedsLlmIffOverallLow ==
    Returned =>
        (needs_llm_clarification(overall_confidence, sections)
            <=> overall_confidence = "low")

\* a parsed result whose only section is the Low INTRO of a text without
\* headers: more than half of the sections are Low
C20_Witness ==
    /\ Returned
    /\ "semantics" \in Range(stages)
    /\ Len(sections) = 1
    /\ sections[1].confidence = "low"
    /\ 2 * CountConf(sections, "low") > Len(sections)
    /\ overall_confidence = "low"

ValidatorWarnings ==
    DuplicateWarnings \cup {"Empty section: " \o t : t \in SectionTypes} \cup {INVALID_RANGE}

\* C21: when anchor detection returned at least one anchor, the result has
\* overall confidence High or Medium and needs_llm_clarification() is false,
\* whatever warnings the validator added.
C21_AnchoredResultNotLow ==
    (Returned /\ anchors # <<>>) =>
        /\ overall_confidence \in {"high", "medium"}
        /\ ~ needs_llm_clarification(overall_confidence, sections)

\* a Medium result with an anchor, a warning before the confidence stage and
\* a validator warning after it
C21_Witness ==
    /\ Returned
    /\ anchors # <<>>
    /\ overall_confidence = "medium"
    /\ Range(warnings) \cap ValidatorWarnings # {}
    /\ Len(warnings) >= 2

\* C22: when a CONTACT section exists, every extracted contact is one found
\* in that section's content; the whole text is scanned only when there is
\* no CONTACT section.
C22_ContactsOnlyFromContactSection ==
    (Returned /\ "semantics" \in Range(stages)
              /\ FirstSection(sections, "contact") # None) =>
        \A i \in DOMAIN semantics.contacts :
            \E c \in Range(Candidates(FirstSection(sections, "contact")[1].raw_content)) :
                ContactKey(c.value) = ContactKey(semantics.contacts[i].value)

\* the anchor detector has run on `normalized`
Scanned == "anchors" \in Range(stages)

\* the score _calculate_line_scores gives line number line_num (from 0) of
\* `normalized` for rule r, were the line l and its number pos
ScoreAt(l, line_num, pos, r, order) ==
    RuleScore(l, pos, Len(normalized), _is_prev_empty(normalized, line_num),
              _is_next_empty(normalized, line_num), registry[r], order).score

\* the line without its closing ':' or U+FF1A
WithoutColon(l) ==
    Line(l.ind, l.mark,
         IF EndsWithFullwidthColon(l) THEN SubSeq(l.words, 1, Len(l.words) - 1) ELSE l.words,
         FALSE)

\* C24: a keyword-matching header line that ends with ':' or with the
\* fullwidth colon scores the rule's colon bonus more than the same line
\* without it, and a line ending with neither gets no colon bonus (stated
\* for the rules whose position multiplier is 1, which do not rescale it).
C24_ColonBonusForBothColons ==
    Scanned =>
        \A k \in DOMAIN normalized, r \in DOMAIN registry, order \in HashOrders :
            LET l == normalized[k]
                bare == ScoreAt(WithoutColon(l), k - 1, k - 1, r, order)
            IN  (bare > 0 /\ registry[r].position_score_multiplier = 10) =>
                    ScoreAt(l, k - 1, k - 1, r, order)
                        = bare + (IF l.colon \/ EndsWithFullwidthColon(l)
                                  THEN registry[r].colon_bonus ELSE 0)

\* the score of line k of `normalized` for rule r at its place and at the
\* first / after the last place of the document
Here(k, r, order) == ScoreAt(normalized[k], k - 1, k - 1, r, order)
AtTop(k, r, order) == ScoreAt(normalized[k], k - 1, 0, r, order)
AtEnd(k, r, order) == ScoreAt(normalized[k], k - 1, Len(normalized), r, order)

InLast30(k) == 10 * (k - 1) > 7 * Len(normalized)
InFirst30(k) == 10 * (k - 1) < 3 * Len(normalized)

\* C25 as stated: a match of a rule with multiplier below 1 in the last 30%
\* scores not higher than the same line outside the last 30%; a match of a
\* rule with multiplier above 1 in the first 30% scores at least as high as
\* elsewhere.
C25_LateMatchSuppressed ==
    Scanned =>
        \A k \in DOMAIN normalized, r \in DOMAIN registry, order \in HashOrders :
            /\ (registry[r].position_score_multiplier < 10 /\ InLast30(k))
                   => Here(k, r, order) <= AtTop(k, r, order)
            /\ (registry[r].position_score_multiplier > 10 /\ InFirst30(k))
                   => Here(k, r, order) >= AtEnd(k, r, order)

\* C25, amended: a match of a rule with multiplier m below 1 in the last 30%
\* is scaled by 2 - m, which is above 1, and scores at least as high as the
\* same line outside the last 30%; a match of a rule with multiplier above 1
\* in the first 30% scores at least as high as elsewhere.
C25_LateMatchBoosted ==
    Scanned =>
        \A k \in DOMAIN normalized, r \in DOMAIN registry, order \in HashOrders :
            /\ (registry[r].position_score_multiplier < 10 /\ InLast30(k))
                   => Here(k, r, order) >= AtTop(k, r, order)
            /\ (registry[r].position_score_multiplier > 10 /\ InFirst30(k))
                   => Here(k, r, order) >= AtEnd(k, r, order)

\* a CONTACT anchor in the last 30% whose score is above the score of its
\* line at the top, and an ABOUT_COMPANY line in the first 30% that scores
\* more than at the end
C25_Witness ==
    /\ Scanned
    /\ \E i \in DOMAIN anchors :
          /\ anchors[i].section_type = "contact"
          /\ InLast30(anchors[i].line_number + 1)
          /\ \E r \in DOMAIN registry :
                /\ registry[r].section_type = "contact"
                /\ anchors[i].score > AtTop(anchors[i].line_number + 1, r, "fwd")
    /\ \E k \in DOMAIN normalized, r \in DOMAIN registry :
          /\ registry[r].position_score_multiplier > 10
          /\ InFirst30(k)
          /\ Here(k, r, "fwd") > AtEnd(k, r, "fwd")

\* C23: a hybrid indicator gives unknown; otherwise remote is true when more
\* positive than negative indicators occur, false when more negative than
\* positive occur, and unknown exactly when the counts are equal.
C23_RemoteByMajority ==
    (Returned /\ "semantics" \in Range(stages)) =>
        LET remote_count == IndicatorCount(REMOTE_POSITIVE, normalized)
            office_count == IndicatorCount(REMOTE_NEGATIVE, normalized)
        IN  semantics.remote =
                IF \E h \in HYBRID_INDICATORS : InText(h, normalized) THEN None
                ELSE IF remote_count > office_count THEN Some(TRUE)
                ELSE IF office_count > remote_count THEN Some(FALSE)
                ELSE None

\* C26: no line of 3 or more repeated = - _ * # characters and no
\* whitespace-only line of the raw text appears in the normalized text, as
\* it was written or as the bullet unifier rewrote it.
C26_DecorativeLinesRemoved ==
    "normalize" \in Range(stages) =>
        \A k \in DOMAIN normalized :
            /\ ~IsDecorative(normalized[k])
            /\ \A i \in DOMAIN raw_text :
                   IsDecorative(raw_text[i]) => normalized[k] # unify_bullet_line(raw_text[i])

\* C27: "from 100k" yields min = 100000 with max absent, and "up to 200k"
\* yields max = 200000 with min absent.
C27_SuffixedBoundParsed ==
    Returned =>
        /\ raw_text = <<MkLine(FromPhrase)>> =>
              /\ semantics.salary # None
              /\ semantics.salary[1].min = Some(100000)
              /\ semantics.salary[1].max = None
        /\ raw_text = <<MkLine(UpToPhrase)>> =>
              /\ semantics.salary # None
              /\ semantics.salary[1].max = Some(200000)
              /\ semantics.salary[1].min = None

CompanySignalHits(sec) ==
    BoolToInt(HasWord(sec.raw_content, "company")) + BoolToInt(HasWord(sec.raw_content, "team"))
        + BoolToInt(HasWordThenSpace(sec.raw_content, "we"))

RequirementSignalHits(sec) ==
    Cardinality({w \in {"trebovaniya", "obyazannosti", "requirements", "responsibilities",
                        "skills"} : HasWord(sec.raw_content, w)})

\* the section list with section i relabelled ABOUT_COMPANY at Medium
\* confidence and nothing else changed
Reclassified(secs, i) ==
    [k \in DOMAIN secs |->
        IF k = i THEN [secs[k] EXCEPT !.type = "about_company", !.confidence = "medium"]
        ELSE secs[k]]

C28_Step ==
    pc = "merge" =>
        IF \E i \in DOMAIN sections :
              /\ sections[i].type = "intro"
              /\ \A k \in DOMAIN sections : sections[k].type # "about_company"
              /\ CompanySignalHits(sections[i]) >= 2
              /\ RequirementSignalHits(sections[i]) = 0
              /\ Len(sections[i].content) < 5
        THEN \E i \in DOMAIN sections :
                sections[i].type = "intro" /\ sections' = Reclassified(sections, i)
        ELSE sections' = sections

\* C28: merge_intro_with_about relabels the INTRO section ABOUT_COMPANY at
\* Medium confidence exactly when an INTRO exists, no ABOUT_COMPANY section
\* exists, the intro has at least 2 company-signal hits, no requirement
\* signal hit and fewer than 5 items; otherwise, and for every other
\* section, nothing changes.
C28_IntroReclassifiedIff == [][C28_Step]_vars

\* the INTRO of four items was relabelled beside a REQUIREMENTS section
C28_Witness ==
    /\ "merge_intro" \in Range(stages)
    /\ Len(sections) = 2
    /\ sections[1].type = "about_company"
    /\ sections[1].confidence = "medium"
    /\ Len(sections[1].content) = 4
    /\ sections[1].start_line = 0
    /\ sections[2].type = "requirements"

\* the sentence fragments of line l that have at least n characters
FragmentsOfAtLeast(l, n) ==
    LET parts == SplitWords(l.words, <<>>)
        kept == SelectSeq([i \in 1..Len(parts) |-> i],
                          LAMBDA i : FragmentLen(l, parts[i], i = Len(parts)) >= n)
    IN  [p \in 1..Len(kept) |->
            [text |-> <<Line(0, "none", parts[kept[p]], l.colon /\ kept[p] = Len(parts))>>,
             is_continuation |-> FALSE]]

\* what the claim makes of one item
SplitAsClaimed(item) ==
    IF ~item.is_continuation /\ ItemLen(item) > 200
          /\ Len(FragmentsOfAtLeast(item.text[1], 20)) >= 2
    THEN FragmentsOfAtLeast(item.text[1], 20)
    ELSE <<item>>

C29_Step ==
    pc = "split" =>
        sections' = [i \in DOMAIN sections |->
                        [sections[i] EXCEPT !.content =
                            ConcatAll([k \in 1..Len(sections[i].content) |->
                                          SplitAsClaimed(sections[i].content[k])])]]

\* C29: split_long_paragraphs replaces a non-continuation item of more than
\* 200 characters by its sentence fragments of at least 20 characters, keeps
\* the item when fewer than 2 such fragments result, and never changes an
\* item of at most 200 characters or a continuation item.
C29_LongItemsSplit == [][C29_Step]_vars

\* C30: a raw text that is not blank but normalizes to the empty string goes
\* through every stage and returns no section, overall confidence Low and
\* exactly the short-text and the no-headers warning, in that order,
\* without the empty-input warning.
C30_EmptiedTextRunsAllStages ==
    (Returned /\ ~BlankInput /\ normalize_text(raw_text) = <<>>) =>
        /\ stages = StageOrder
        /\ normalized = <<>>
        /\ anchors = <<>>
        /\ sections = <<>>
        /\ overall_confidence = "low"
        /\ warnings = <<"Very short text after normalization", "No section headers detected">>

\* a returned parse of decorative lines and lines of spaces only
C30_Witness ==
    /\ Returned
    /\ \E i \in DOMAIN raw_text : raw_text[i].words = <<"===">>
    /\ \E i \in DOMAIN raw_text : raw_text[i].words = <<"###">>
    /\ normalized = <<>>
    /\ "anchors" \in Range(stages)
    /\ "content" \in Range(stages)

=============================================================================
